---- MODULE Spec2Model ----
(***************************************************************************)
(* The interview decision core of VoiceScreenAIInterview: the turn cursor  *)
(* of CandidateState, the policy engine AgenticInterviewer, the question   *)
(* drafter's failure handling, and InterviewController.get_next_question   *)
(* with the state store and the turn store it writes.                      *)
(*                                                                         *)
(* Scores are kept in tenths of a point (6.0 is 60) so that the averages   *)
(* of the source are integer comparisons.                                  *)
(***************************************************************************)
EXTENDS Integers, Sequences, FiniteSets, TLC

VARIABLES
    stored,          \* candidate_states rows of the interview: <<>> or one row
    turns,           \* interview_turns rows of the interview, in insertion order
    session_status,  \* interview_sessions.status of the interview
    job,             \* what job_service.get_job returns for the session's job id
    tables,          \* the rows of interview_scores, interview_signals and the ATS sync log
    response,        \* what the last sequential get_next_question call returned
    drafter,         \* what the question drafter's LLM call came to in that call
    pc,              \* per concurrent request: its position in get_next_question
    local,           \* per concurrent request: the CandidateState object it holds
    question_data,   \* per concurrent request: the question_data it holds
    reply,           \* per concurrent request: what it returned
    persisted,       \* per concurrent request: did its save_state reach the store
    sessions,        \* interview_sessions.status of the candidate's later interviews
    call,            \* the arguments of a call of a function looked at on its own
    result           \* what that call returned, NoResult before it

vars == <<stored, turns, session_status, job, tables, response, drafter,
          pc, local, question_data, reply, persisted, sessions, call, result>>

seqVars == <<stored, turns, session_status, job, tables, response, drafter>>
concVars == <<pc, local, question_data, reply, persisted>>
auxVars == <<sessions, call, result>>

-----------------------------------------------------------------------------
(* Program constants: agentic_interviewer.py                               *)

MIN_CORE_QUESTIONS == 8
MAX_QUESTIONS == 12
END_INTERVIEW_BUFFER == 2

BASE_QUESTION_PLAN ==
    << "warmup", "behavioral", "behavioral", "motivation",
       "technical", "technical", "scenario", "culture" >>

Categories ==
    { "warmup", "behavioral", "motivation", "technical", "scenario", "culture",
      "candidate_questions", "wrapup" }

(* Bounds of the model                                                     *)

NumRequests == 2        \* concurrent get_next_question requests on the interview
MaxTurnRows == 3        \* concurrent requests start while fewer turn rows exist
LoadedBeyond == 2       \* how far past MAX_QUESTIONS a loaded question_count may lie
MaxSavedCount == 3      \* the question_count of a state saved on its own goes up to it
MaxEvaluations == 3     \* evaluations handed to the recommendation engine
MaxWords == 4           \* words of an answer handed to the scorer
MaxOtherInterviews == 1 \* interviews created for the candidate after the first
MaxLifecycleTurns == 3  \* transcript rows up to which the session life asks on
MaxByIdTurns == 1       \* transcript rows up to which the handlers by id ask and take answers
MaxAnswered == 2        \* answered questions of an interview at the time it is finished
MaxRedFlags == 3        \* red flags on a state object given to the policy
MaxScored == 2          \* scores update_performance has taken on such a state object
MaxPairs == 6           \* question-answer pairs scored in one batch
MaxCategoryScores == 4  \* scores of one category handed to the smoothing
MaxUpdates == 4         \* calls of update_performance on one state object

-----------------------------------------------------------------------------
(* Python values                                                           *)

None == "None"           \* Python's None
Missing == "<missing>"   \* the value of a key a dict does not have

\* A question text is known by where it comes from and the category it is for.
Text(src, for) == [src |-> src, for |-> for]
NoText == Text("", "")
MissingText == Text(Missing, "")

RECURSIVE SumSeq(_)
SumSeq(s) == IF s = <<>> THEN 0 ELSE Head(s) + SumSeq(Tail(s))

RECURSIVE MinSeq(_)
MinSeq(s) ==
    IF Len(s) = 1 THEN s[1]
    ELSE LET m == MinSeq(Tail(s)) IN IF s[1] < m THEN s[1] ELSE m

RECURSIVE Filter(_, _)
Filter(s, excluded) ==
    IF s = <<>> THEN <<>>
    ELSE IF Head(s) \in excluded THEN Filter(Tail(s), excluded)
         ELSE <<Head(s)>> \o Filter(Tail(s), excluded)

HasAttr(obj, name) == name \in DOMAIN obj

SetAttr(obj, name, value) ==
    IF name \in DOMAIN obj THEN [obj EXCEPT ![name] = value]
    ELSE (name :> value) @@ obj

\* list(a_set): the elements in some order; set(a_list): the elements.
RECURSIVE PyList(_)
PyList(S) ==
    IF S = {} THEN <<>>
    ELSE LET x == CHOOSE y \in S : TRUE IN <<x>> \o PyList(S \ {x})

PySet(s) == { s[i] : i \in DOMAIN s }

-----------------------------------------------------------------------------
(* CandidateState: candidate_state.py                                      *)

\* The dataclass fields the policy reads or writes, with their defaults.
\* category_scores and second_chance_category are not among them.
NewCandidateState ==
    [ overall_score       |-> 0,
      performance_trend   |-> <<>>,
      question_count      |-> 0,
      red_flags           |-> <<>>,
      green_flags         |-> <<>>,
      struggle_count      |-> 0,
      strong_answer_count |-> 0,
      current_difficulty  |-> "medium",
      topics_covered      |-> {},
      skills_tested       |-> {},
      next_skill_to_test  |-> "",
      decisions_made      |-> <<>>,
      last_question       |-> NoText,
      last_question_type  |-> "",
      last_answer         |-> "",
      last_score          |-> 0 ]

\* The keys to_dict writes and from_dict reads back.
SerializedKeys == DOMAIN NewCandidateState

\* The fields that are sets in the object and lists in the dict.
SetFields == { "topics_covered", "skills_tested" }

to_dict(state) ==
    [k \in SerializedKeys |->
        IF k \in SetFields THEN PyList(state[k]) ELSE state[k]]

from_dict(data) ==
    [k \in SerializedKeys |->
        IF k \notin DOMAIN data THEN NewCandidateState[k]
        ELSE IF k \in SetFields THEN PySet(data[k]) ELSE data[k]]

\* avg_score < threshold, avg_score being 0.0 for an empty trend
AvgBelow(scores, threshold) ==
    IF scores = <<>> THEN 0 < threshold
    ELSE SumSeq(scores) < threshold * Len(scores)

add_decision(state, decision) ==
    [state EXCEPT !.decisions_made = Append(@, decision)]

-----------------------------------------------------------------------------
(* QuestionGeneratorAgent: question_generator_agent.py                     *)

\* What the LLM call of one generate_question can come to:
\*   fail - the call raises or its text is not JSON (json.loads raises)
\*   json - parsed JSON; has_question says whether it is a dict with a
\*          "question" key (a list, a string, null or a dict without the key
\*          all fail the same subscript), type is its "type" key or Missing
\* The drafter's "type" is free text: the type asked for on a warm-up or a
\* technical turn, a type that is not the one asked for, or no type at all.
DrafterTypes == { "warmup", "technical", Missing }

DrafterOutcomes ==
    { [kind |-> "fail", has_question |-> FALSE, type |-> Missing] }
    \cup [ kind : {"json"}, has_question : BOOLEAN, type : DrafterTypes ]

\* The call did not consult the drafter.
NotCalled == [kind |-> "not_called", has_question |-> FALSE, type |-> Missing]

\* The categories with an entry in the fallbacks dict.
FallbackCategories == { "warmup", "behavioral", "technical", "motivation", "culture" }

_fallback_question(q_type) ==
    [ question |-> Text("fallback", IF q_type \in FallbackCategories THEN q_type
                                    ELSE "background"),
      type     |-> q_type ]

generate_question(q_type, d) ==
    IF d.kind = "fail" THEN _fallback_question(q_type)
    ELSE [ question |-> IF d.has_question THEN Text("drafted", q_type)
                        ELSE MissingText,
           type     |-> d.type ]

-----------------------------------------------------------------------------
(* AgenticInterviewer: agentic_interviewer.py                              *)

ImportantCategories == << "behavioral", "motivation", "technical", "scenario" >>

\* The outcome of a call that may raise: ok with a value, or raised.
Ok(state, value) == [raised |-> FALSE, state |-> state, value |-> value]
Raised(state) == [raised |-> TRUE, state |-> state]

CategoryFailed(scores) ==
    scores # <<>> /\ (SumSeq(scores) < 60 * Len(scores) \/ MinSeq(scores) < 45)

CategoryStrong(scores) ==
    scores # <<>> /\ ~CategoryFailed(scores) /\ SumSeq(scores) >= 75 * Len(scores)

CategoryScoresOf(state, cat) ==
    IF cat \in DOMAIN state.category_scores THEN state.category_scores[cat] ELSE <<>>

\* A policy that never ends the extension window.
should_continue_always(state) == Ok(state, TRUE)

\* value is TRUE (continue) or FALSE (terminate); raised is the AttributeError
\* of reading an attribute the state object does not have.
should_continue_after_minimum(state) ==
    IF state.question_count < MIN_CORE_QUESTIONS THEN Ok(state, TRUE)
    ELSE IF state.question_count >= MAX_QUESTIONS - END_INTERVIEW_BUFFER
    THEN Ok(state, FALSE)
    ELSE IF state.question_count >= MIN_CORE_QUESTIONS + 1 THEN Ok(state, FALSE)
    ELSE IF ~HasAttr(state, "category_scores") THEN Raised(state)
    ELSE
      LET failed_cats ==
              SelectSeq(ImportantCategories,
                        LAMBDA c : CategoryFailed(CategoryScoresOf(state, c)))
          strong_cats ==
              SelectSeq(ImportantCategories,
                        LAMBDA c : CategoryStrong(CategoryScoresOf(state, c)))
      IN  IF /\ Len(failed_cats) = 1
             /\ failed_cats[1] \in {"technical", "scenario"}
             /\ Len(strong_cats) >= 2
          THEN Ok(SetAttr(state, "second_chance_category", failed_cats[1]), TRUE)
          ELSE Ok(state, FALSE)

decide_termination(state) ==
    LET r == should_continue_after_minimum(state)
    IN  IF r.raised THEN r
        ELSE Ok(r.state,
                [ question_number |-> state.question_count,
                  decision_type   |-> IF r.value THEN "continue" ELSE "terminate",
                  action          |-> IF r.value THEN "continue" ELSE "terminate" ])

\* value is the follow-up type, or None for "no follow-up".
should_add_followup(state) ==
    IF state.question_count >= MAX_QUESTIONS THEN None
    ELSE IF state.question_count < MIN_CORE_QUESTIONS THEN None
    ELSE IF /\ state.strong_answer_count >= 1
            /\ state.last_question_type \in {"technical", "scenario"}
    THEN None
    ELSE IF /\ state.last_score < 50
            /\ state.last_question_type \in {"behavioral", "technical", "scenario"}
    THEN "clarify"
    ELSE IF /\ state.last_score >= 90
            /\ state.last_question_type \in {"technical", "scenario"}
    THEN "deep_dive"
    ELSE IF /\ state.red_flags # <<>>
            /\ Len(state.red_flags) > Len(state.decisions_made) - 5
    THEN "probe_red_flag"
    ELSE None

GeneralSkill == "general technical knowledge"

\* job is what job_service.get_job returned: found is FALSE for None.
select_technical_skill(state, j, step_no) ==
    IF ~j.found THEN GeneralSkill
    ELSE IF j.must_have_skills = <<>> THEN GeneralSkill
    ELSE
      LET must == j.must_have_skills
          first == Filter(must, state.skills_tested)
          untested ==
              IF first = <<>>
              THEN Filter(j.nice_to_have_skills \o j.technical_focus_areas,
                          state.skills_tested)
              ELSE first
      IN  IF step_no = 5
          THEN IF untested # <<>> THEN untested[1] ELSE must[1]
          ELSE IF step_no = 6
          THEN IF Len(untested) >= 2 THEN untested[2]
               ELSE IF Len(untested) = 1 THEN untested[1]
               ELSE IF Len(must) > 1 THEN must[2] ELSE must[1]
          \* not reached from generate_next_question, which asks for a skill
          \* on the technical turns 5 and 6 of the plan only
          ELSE IF AvgBelow(state.performance_trend, 60) /\ state.skills_tested # {}
          THEN CHOOSE sk \in state.skills_tested : TRUE
          ELSE IF untested # <<>> THEN untested[1] ELSE must[1]

\* generate_next_question returning None
NoQuestionData == [question |-> NoText, type |-> None]

\* question_data["question"] raises on a record without the key.
MissingQuestion(qd) == qd.question = MissingText

_generate_candidate_questions(state, turn_no) ==
    Ok([state EXCEPT !.question_count = turn_no,
                     !.last_question = Text("fixed", "candidate_questions"),
                     !.last_question_type = "candidate_questions",
                     !.topics_covered = @ \cup {"candidate_questions"}],
       [question |-> Text("fixed", "candidate_questions"),
        type |-> "candidate_questions"])

_generate_wrapup(state, turn_no) ==
    Ok([state EXCEPT !.question_count = turn_no,
                     !.last_question = Text("fixed", "wrapup"),
                     !.last_question_type = "wrapup",
                     !.topics_covered = @ \cup {"wrapup"}],
       [question |-> Text("fixed", "wrapup"), type |-> "wrapup"])

\* Lines 307-363: turns 1..MIN_CORE_QUESTIONS.
CorePlan(state, j, d, turn_no) ==
    LET q_type == BASE_QUESTION_PLAN[turn_no]
    IN  IF q_type = "warmup"
        THEN LET qd == generate_question(q_type, d)
                 s1 == [state EXCEPT !.question_count = turn_no]
             IN  IF MissingQuestion(qd) THEN Raised(s1)
                 ELSE Ok([s1 EXCEPT !.last_question = qd.question,
                                    !.last_question_type = q_type,
                                    !.topics_covered = @ \cup {q_type}],
                         qd)
        ELSE LET skill == select_technical_skill(state, j, turn_no)
                 s0 == IF q_type = "technical"
                       THEN add_decision(
                              [state EXCEPT !.next_skill_to_test = skill,
                                            !.skills_tested = @ \cup {skill}],
                              [ question_number |-> turn_no,
                                decision_type   |-> "skill_selection",
                                action          |-> "selected" ])
                       ELSE state
                 qd == generate_question(q_type, d)
                 s1 == [s0 EXCEPT !.question_count = turn_no]
             IN  IF MissingQuestion(qd) THEN Raised(s1)
                 ELSE Ok([s1 EXCEPT !.last_question = qd.question,
                                    !.last_question_type = q_type,
                                    !.topics_covered = @ \cup {q_type}],
                         [qd EXCEPT !.type = q_type])

\* Lines 383-431: the policy said continue.
Followup(state, d, turn_no) ==
    LET f == should_add_followup(state)
        followup_type == IF f = None THEN "deep_dive" ELSE f
        s1 == add_decision(state, [ question_number |-> turn_no,
                                    decision_type   |-> "add_followup",
                                    action          |-> followup_type ])
    IN  IF ~HasAttr(s1, "second_chance_category") THEN Raised(s1)
        ELSE
          LET q_type_followup ==
                  IF s1.second_chance_category \notin {None, ""}
                  THEN s1.second_chance_category ELSE "technical"
              qd == generate_question(q_type_followup, d)
              s2 == [SetAttr(s1, "second_chance_category", None)
                        EXCEPT !.question_count = turn_no]
          IN  IF MissingQuestion(qd) THEN Raised(s2)
              ELSE Ok([s2 EXCEPT !.last_question = qd.question,
                                 !.last_question_type = q_type_followup],
                      qd)

\* Lines 366-431: turns up to MAX_QUESTIONS - END_INTERVIEW_BUFFER.
ExtensionWindow(state, d, turn_no) ==
    IF "candidate_questions" \in state.topics_covered
    THEN IF "wrapup" \in state.topics_covered THEN Ok(state, NoQuestionData)
         ELSE _generate_wrapup(state, turn_no)
    ELSE LET t == decide_termination(state)
         IN  IF t.raised THEN Raised(t.state)
             ELSE LET s1 == add_decision(t.state, t.value)
                  IN  IF t.value.action = "terminate"
                      THEN _generate_candidate_questions(s1, turn_no)
                      ELSE Followup(s1, d, turn_no)

\* Lines 433-437: turn MAX_QUESTIONS - 1.
CandidateQASlot(state, turn_no) ==
    IF "candidate_questions" \in state.topics_covered
    THEN _generate_wrapup(state, turn_no)
    ELSE _generate_candidate_questions(state, turn_no)

\* The wrap-up slot without its guard.
WrapupSlotUnguarded(state, turn_no) == _generate_wrapup(state, turn_no)

\* Lines 439-443: turn MAX_QUESTIONS.
WrapupSlot(state, turn_no) ==
    IF "wrapup" \in state.topics_covered THEN Ok(state, NoQuestionData)
    ELSE _generate_wrapup(state, turn_no)

\* No hard stop: a later turn is served like the wrap-up slot.
HardStopServes(state, turn_no) == WrapupSlotUnguarded(state, turn_no)

\* Lines 445-447: any later turn.
HardStop(state, turn_no) == Ok(state, NoQuestionData)

generate_next_question(state, j, d) ==
    LET turn_no == state.question_count + 1
    IN  IF turn_no <= MIN_CORE_QUESTIONS THEN CorePlan(state, j, d, turn_no)
        ELSE IF turn_no <= MAX_QUESTIONS - END_INTERVIEW_BUFFER
        THEN ExtensionWindow(state, d, turn_no)
        ELSE IF turn_no = MAX_QUESTIONS - 1 THEN CandidateQASlot(state, turn_no)
        ELSE IF turn_no = MAX_QUESTIONS THEN WrapupSlot(state, turn_no)
        ELSE HardStop(state, turn_no)

-----------------------------------------------------------------------------
(* StatePersistence: state_persistence.py                                  *)

\* The upsert of the interview's single row.
save_state(rows, state) == << [state_data |-> to_dict(state)] >>

load_state(rows) == IF rows = <<>> THEN <<>> ELSE << from_dict(rows[1].state_data) >>

\* The state object and the rows after get_or_create_state.
get_or_create_state(rows) ==
    IF load_state(rows) = <<>>
    THEN [state |-> NewCandidateState, rows |-> save_state(rows, NewCandidateState)]
    ELSE [state |-> load_state(rows)[1], rows |-> rows]

-----------------------------------------------------------------------------
(* InterviewController.get_next_question: interview_controller.py          *)

\* Whether generate_next_question calls generate_question: on every core
\* turn (lines 313, 345) and for a follow-up (line 412).
DrafterConsulted(state) ==
    LET turn_no == state.question_count + 1
    IN  \/ turn_no <= MIN_CORE_QUESTIONS
        \/ /\ turn_no <= MAX_QUESTIONS - END_INTERVIEW_BUFFER
           /\ "candidate_questions" \notin state.topics_covered
           /\ ~decide_termination(state).raised
           /\ decide_termination(state).value.action = "continue"
           /\ HasAttr(decide_termination(state).state, "second_chance_category")

\* The except branch without its increment.
OnAgentErrorNoIncrement(state) == state

\* Lines 142-157: the except branch around generate_next_question.
OnAgentError(state) == [state EXCEPT !.question_count = @ + 1]

ErrorFallbackQuestion ==
    [question |-> Text("error_fallback", "motivation"), type |-> "motivation"]

NoResponse == [kind |-> "", turnNo |-> 0, questionType |-> "", question |-> NoText]

\* Lines 163-172
CompletionResponse(state) ==
    [kind |-> "completion", turnNo |-> state.question_count,
     questionType |-> "completion", question |-> NoText]

\* Lines 184-191; question_data["type"] raises on a record without the key,
\* which the route turns into an error response.
QuestionResponse(state, qd) ==
    IF qd.type = Missing
    THEN [kind |-> "error", turnNo |-> 0, questionType |-> "", question |-> NoText]
    ELSE [kind |-> "question", turnNo |-> state.question_count,
          questionType |-> qd.type, question |-> qd.question]

AgentTurn(turn_no, text) == [turn_no |-> turn_no, speaker |-> "agent", text |-> text]

\* Lines 121-123
StartedStatus(status) ==
    IF status = "CONSENT_GRANTED" THEN "INTERVIEW_IN_PROGRESS" ELSE status

-----------------------------------------------------------------------------
(* The interview as a state machine                                        *)

Job(must, nice, focus) ==
    [found |-> TRUE, must_have_skills |-> must, nice_to_have_skills |-> nice,
     technical_focus_areas |-> focus]

NoJob == [found |-> FALSE, must_have_skills |-> <<>>, nice_to_have_skills |-> <<>>,
          technical_focus_areas |-> <<>>]

Jobs ==
    { NoJob,
      Job(<<"sql", "python">>, <<"excel">>, <<>>),
      Job(<<"sql">>, <<>>, <<"etl">>) }

Requests == 1 .. NumRequests

\* Nothing written yet by finish_interview.
NoTables == [interview_scores |-> <<>>, interview_signals |-> <<>>, ats |-> <<>>]

\* No call of a function on its own, no later interview of the candidate.
NoCall == [fn |-> "none"]
NoResult == [fn |-> "none"]

AuxIdle ==
    /\ sessions = <<>>
    /\ call = NoCall
    /\ result = NoResult

ConcIdle ==
    /\ pc = [r \in Requests |-> "idle"]
    /\ local = [r \in Requests |-> NewCandidateState]
    /\ question_data = [r \in Requests |-> NoQuestionData]
    /\ reply = [r \in Requests |-> NoResponse]
    /\ persisted = [r \in Requests |-> FALSE]

\* A consented interview before its first next-question request.
Init ==
    /\ stored = <<>>
    /\ turns = <<>>
    /\ session_status = "CONSENT_GRANTED"
    /\ job \in Jobs
    /\ tables = NoTables
    /\ response = NoResponse
    /\ drafter = NotCalled
    /\ ConcIdle
    /\ AuxIdle

\* One whole call of get_next_question (lines 115-191) on a store that
\* answers every read and write. g is the state loaded or created, r the
\* outcome of generate_next_question, state the object after the except
\* branch, qd the question_data the controller goes on with.
GetNextQuestion ==
    \E d \in DrafterOutcomes :
    \E g \in {get_or_create_state(stored)} :
    \E r \in {generate_next_question(g.state, job, d)} :
    \E state \in {IF r.raised THEN OnAgentError(r.state) ELSE r.state} :
    \E qd \in {IF r.raised THEN ErrorFallbackQuestion ELSE r.value} :
        /\ drafter' = IF DrafterConsulted(g.state) THEN d ELSE NotCalled
        /\ IF qd = NoQuestionData
           THEN /\ stored' = IF r.raised THEN save_state(g.rows, state) ELSE g.rows
                /\ turns' = turns
                /\ session_status' = "COMPLETED"
                /\ response' = CompletionResponse(state)
           ELSE /\ stored' = save_state(g.rows, state)
                /\ turns' = Append(turns, AgentTurn(state.question_count, qd.question))
                /\ session_status' = StartedStatus(session_status)
                /\ response' = QuestionResponse(state, qd)
        /\ UNCHANGED <<job, tables, concVars, auxVars>>

Next == GetNextQuestion

Spec == Init /\ [][Next]_vars

\* A client that keeps asking gets every call served.
FairSpec == Spec /\ WF_vars(GetNextQuestion)

\* An interview whose stored row was written by something else than this
\* engine: any turn cursor up to LoadedBeyond past MAX_QUESTIONS, with or
\* without the closing topics marked.
LoadedCounts == 0 .. (MAX_QUESTIONS + LoadedBeyond)

InitLoaded ==
    /\ stored \in
         { <<>> } \cup
         { save_state(<<>>, [NewCandidateState EXCEPT !.question_count = n,
                                                      !.topics_covered = t]) :
             n \in LoadedCounts, t \in SUBSET {"candidate_questions", "wrapup"} }
    /\ turns = <<>>
    /\ session_status = "INTERVIEW_IN_PROGRESS"
    /\ job \in Jobs
    /\ tables = NoTables
    /\ response = NoResponse
    /\ drafter = NotCalled
    /\ ConcIdle
    /\ AuxIdle

SpecLoaded == InitLoaded /\ [][Next]_vars

-----------------------------------------------------------------------------
(* Concurrent requests on one interview. Each request is a call of         *)
(* get_next_question that takes one step per access to the stores; a       *)
(* save_state whose upsert raises prints the error and returns False, and  *)
(* the controller does not look at what it returns.                        *)

\* save_state (lines 13-27): the rows after it, written says whether the
\* upsert went through.
save_state_result(rows, state, written) ==
    IF written THEN save_state(rows, state) ELSE rows

\* Lines 117-133: get_session, start_interview, get_or_create_state.
ReqLoad(r) ==
    /\ pc[r] \in {"idle", "done"}
    /\ Len(turns) < MaxTurnRows
    /\ \E written \in BOOLEAN :
       \E g \in {get_or_create_state(stored)} :
          /\ stored' = IF written THEN g.rows ELSE stored
          /\ local' = [local EXCEPT ![r] = g.state]
    /\ session_status' = StartedStatus(session_status)
    /\ pc' = [pc EXCEPT ![r] = "loaded"]
    /\ persisted' = [persisted EXCEPT ![r] = FALSE]
    /\ question_data' = [question_data EXCEPT ![r] = NoQuestionData]
    /\ reply' = [reply EXCEPT ![r] = NoResponse]
    /\ UNCHANGED <<turns, job, tables, response, drafter, auxVars>>

\* Lines 136-157: generate_next_question and the except branch with its
\* own save_state.
ReqGenerate(r) ==
    /\ pc[r] = "loaded"
    /\ \E d \in DrafterOutcomes, written \in BOOLEAN :
       \E g \in {generate_next_question(local[r], job, d)} :
          IF g.raised
          THEN /\ local' = [local EXCEPT ![r] = OnAgentError(g.state)]
               /\ stored' = save_state_result(stored, OnAgentError(g.state), written)
               /\ persisted' = [persisted EXCEPT ![r] = written]
               /\ question_data' = [question_data EXCEPT ![r] = ErrorFallbackQuestion]
          ELSE /\ local' = [local EXCEPT ![r] = g.state]
               /\ question_data' = [question_data EXCEPT ![r] = g.value]
               /\ UNCHANGED <<stored, persisted>>
    /\ pc' = [pc EXCEPT ![r] = "generated"]
    /\ UNCHANGED <<turns, session_status, job, tables, response, drafter, reply, auxVars>>

\* Lines 159-176: the completion answer, or save_state before the answer.
ReqSave(r) ==
    /\ pc[r] = "generated"
    /\ IF question_data[r] = NoQuestionData
       THEN /\ session_status' = "COMPLETED"
            /\ reply' = [reply EXCEPT ![r] = CompletionResponse(local[r])]
            /\ pc' = [pc EXCEPT ![r] = "done"]
            /\ UNCHANGED <<stored, persisted>>
       ELSE /\ \E written \in BOOLEAN :
                 /\ stored' = save_state_result(stored, local[r], written)
                 /\ persisted' = [persisted EXCEPT ![r] = @ \/ written]
            /\ pc' = [pc EXCEPT ![r] = "saved"]
            /\ UNCHANGED <<session_status, reply>>
    /\ UNCHANGED <<turns, job, tables, response, drafter, local, question_data, auxVars>>

\* Lines 178-191: save_turn and the answer.
ReqRespond(r) ==
    /\ pc[r] = "saved"
    /\ turns' = Append(turns, AgentTurn(local[r].question_count,
                                        question_data[r].question))
    /\ reply' = [reply EXCEPT ![r] = QuestionResponse(local[r], question_data[r])]
    /\ pc' = [pc EXCEPT ![r] = "done"]
    /\ UNCHANGED <<stored, session_status, job, tables, response, drafter,
                   local, question_data, persisted, auxVars>>

NextConc ==
    \E r \in Requests :
        \/ ReqLoad(r)
        \/ ReqGenerate(r)
        \/ ReqSave(r)
        \/ ReqRespond(r)

SpecConc == Init /\ [][NextConc]_vars

-----------------------------------------------------------------------------
(* save_state and load_state on their own: a state object is saved, saved  *)
(* again, and loaded by a fresh process.                                   *)

SeqIdle ==
    /\ stored = <<>>
    /\ turns = <<>>
    /\ session_status = "INTERVIEW_IN_PROGRESS"
    /\ job = NoJob
    /\ tables = NoTables
    /\ response = NoResponse
    /\ drafter = NotCalled

\* What line 84 and line 422 of agentic_interviewer.py assign to
\* state.second_chance_category, an attribute set on the object.
SecondChanceValues == { "technical", "scenario", None }

\* The state objects saved: the cursor, the topics and the decisions that
\* generate_next_question leaves, without or with the attribute that
\* should_continue_after_minimum sets on the object.
SavedStates ==
    LET plain ==
          { [NewCandidateState EXCEPT !.question_count = n,
                                      !.topics_covered = t,
                                      !.decisions_made = dm] :
              n \in 0 .. MaxSavedCount,
              t \in SUBSET {"warmup", "candidate_questions", "wrapup"},
              dm \in { <<>>, << [ question_number |-> 9,
                                  decision_type   |-> "terminate",
                                  action          |-> "terminate" ] >> } }
    IN  plain \cup { SetAttr(st, "second_chance_category", v) :
                       st \in plain, v \in SecondChanceValues }

InitRoundTrip ==
    /\ SeqIdle
    /\ ConcIdle
    /\ sessions = <<>>
    /\ call \in { [fn |-> "save_state", state |-> st] : st \in SavedStates }
    /\ result = NoResult

\* StatePersistence.save_state(state)
SaveState ==
    /\ call.fn = "save_state"
    /\ stored' = save_state(stored, call.state)
    /\ UNCHANGED <<turns, session_status, job, tables, response, drafter,
                   concVars, sessions, call, result>>

\* StatePersistence.load_state(interview_id) in a fresh process
LoadState ==
    /\ call.fn = "save_state"
    /\ result' = [fn |-> "load_state", state |-> load_state(stored)]
    /\ UNCHANGED <<seqVars, concVars, sessions, call>>

NextRoundTrip == SaveState \/ LoadState

SpecRoundTrip == InitRoundTrip /\ [][NextRoundTrip]_vars

-----------------------------------------------------------------------------
(* SummaryService._determine_recommendation: summary_service.py            *)
(*                                                                         *)
(* The aggregate scores are integers 0..100. An evaluation is known by its *)
(* "type" key (Missing when the scorer gave none), its technical and       *)
(* communication scores in tenths, the number of its red flags,            *)
(* improvements and strengths longer than 10 characters, and whether its   *)
(* text holds "irrelevant answer" or "repetitive content".                 *)

Evaluation(type, technical, communication, red, imp, str, gaming) ==
    [ type |-> type, technical |-> technical, communication |-> communication,
      red_flags |-> red, improvements |-> imp, strengths |-> str,
      gaming |-> gaming ]

RECURSIVE CountOf(_, _)
CountOf(evaluations, key) ==
    IF evaluations = <<>> THEN 0
    ELSE Head(evaluations)[key] + CountOf(Tail(evaluations), key)

red_flag_count_none(evaluations) == 0

\* Lines 129-131
red_flag_count(evaluations) == CountOf(evaluations, "red_flags")
improvement_count(evaluations) == CountOf(evaluations, "improvements")
green_flag_count(evaluations) == CountOf(evaluations, "strengths")

irrelevance_count_none(evaluations) == 0

\* Line 136
irrelevance_count(evaluations) ==
    Cardinality({ i \in DOMAIN evaluations : evaluations[i].gaming })

Decided(recommendation, rule) ==
    [recommendation |-> recommendation, rule |-> rule]

SevereFloorLower(overall_score) == overall_score < 36

\* Line 149
SevereFloor(overall_score) == overall_score < 40

\* Lines 149-169: the rule that rejects, "" when none does.
RejectRule(overall_score, num_questions, technical_score, evaluations) ==
    LET reds == red_flag_count(evaluations)
    IN  IF SevereFloor(overall_score) THEN "score_too_low"
        ELSE IF reds >= 4 THEN "red_flags"
        ELSE IF reds >= 2 /\ overall_score < 50 THEN "red_flags_weak"
        ELSE IF improvement_count(evaluations) >= 8 /\ overall_score < 50
             THEN "concerns_weak"
        ELSE IF technical_score < 30 /\ technical_score > 0 THEN "technical_gaps"
        ELSE IF num_questions >= 10 /\ overall_score < 45 THEN "complete_weak"
        ELSE ""

\* Line 199: max(10, int(num_questions * 1.25))
max_improvements(num_questions) ==
    LET scaled == (num_questions * 125) \div 100
    IN  IF scaled > 10 THEN scaled ELSE 10

StrongBandHigher(overall_score) == overall_score >= 80

\* Line 176
StrongBand(overall_score) == overall_score >= 75

\* Lines 176-220, entered when StrongBand(overall_score)
ProceedCriteria(overall_score, num_questions, technical_score, communication_score, evaluations) ==
    LET reds == red_flag_count(evaluations)
        checks_passed ==
            (IF technical_score >= 70 THEN 1 ELSE 0)
          + (IF communication_score >= 70 THEN 1 ELSE 0)
          + (IF green_flag_count(evaluations) >= reds THEN 1 ELSE 0)
        \* line 207 raises the cap by half when overall_score >= 80
        at_cap == IF overall_score >= 80
                  THEN 2 * improvement_count(evaluations)
                         >= 3 * max_improvements(num_questions)
                  ELSE improvement_count(evaluations)
                         >= max_improvements(num_questions)
    IN  IF reds >= 3 THEN Decided("HOLD", "strong_red_flags")
        ELSE IF at_cap /\ overall_score < 80
             THEN Decided("HOLD", "strong_improvements")
        ELSE IF technical_score < 60 /\ technical_score > 0
             THEN Decided("HOLD", "strong_technical_gaps")
        ELSE IF checks_passed >= 2 THEN Decided("PROCEED", "strong")
        ELSE Decided("HOLD", "strong_mixed")

\* Line 248: e.get("type", "other").lower()
TypeOf(e) == IF e.type = Missing THEN "other" ELSE e.type

\* Line 250
ScoreOf(e) ==
    IF TypeOf(e) \in {"technical", "scenario"} THEN e.technical
    ELSE e.communication

\* Lines 245-250: evals_by_type[t], and its keys in insertion order
RECURSIVE ScoresOfType(_, _)
ScoresOfType(evaluations, t) ==
    IF evaluations = <<>> THEN <<>>
    ELSE (IF TypeOf(Head(evaluations)) = t THEN <<ScoreOf(Head(evaluations))>>
          ELSE <<>>) \o ScoresOfType(Tail(evaluations), t)

RECURSIVE TypeOrder(_, _)
TypeOrder(evaluations, seen) ==
    IF evaluations = <<>> THEN <<>>
    ELSE LET t == TypeOf(Head(evaluations))
         IN  IF t \in seen THEN TypeOrder(Tail(evaluations), seen)
             ELSE <<t>> \o TypeOrder(Tail(evaluations), seen \cup {t})

\* Lines 253-261: the loop stops at the first category with 3 or more scores.
RECURSIVE RecoveryScan(_, _)
RecoveryScan(order, evaluations) ==
    IF order = <<>> THEN [has_recovery |-> FALSE, has_failed_double_chance |-> FALSE]
    ELSE LET ss == ScoresOfType(evaluations, Head(order))
         IN  IF Len(ss) >= 3
             THEN [ has_recovery |-> ss[Len(ss)] >= 70 /\ ss[1] < 50,
                    has_failed_double_chance |->
                        ~(ss[Len(ss)] >= 70 /\ ss[1] < 50)
                        /\ ss[Len(ss)] < 50 /\ ss[1] < 50 ]
             ELSE RecoveryScan(Tail(order), evaluations)

\* Lines 264-265: scores.get("job_id", "")
is_senior(scores) ==
    HasAttr(scores, "job_id") /\ scores.job_id \in {"SENIOR", "EXPERIENCED"}

\* Lines 243-285, entered when 60 <= overall_score < 75
BorderlineCriteria(overall_score, scores, evaluations) ==
    LET scan == RecoveryScan(TypeOrder(evaluations, {}), evaluations)
        reds == red_flag_count(evaluations)
    IN  IF scan.has_recovery /\ overall_score >= 65
        THEN Decided("HOLD", "recovery")
        ELSE IF scan.has_failed_double_chance /\ overall_score >= 60
             THEN Decided("HOLD", "failed_double_chance")
        ELSE IF ~is_senior(scores) /\ overall_score >= 65 /\ reds = 0
             THEN Decided("PROCEED", "solid_non_senior")
        ELSE IF reds > green_flag_count(evaluations)
             THEN Decided("HOLD", "moderate_red_flags")
        ELSE IF overall_score >= 70 /\ reds = 0
             THEN Decided("PROCEED", "solid")
        ELSE Decided("HOLD", "moderate")

\* Lines 228-292
HoldCriteria(overall_score, num_questions, scores, evaluations) ==
    IF num_questions < 8 THEN Decided("HOLD", "ended_early")
    ELSE IF scores.technical >= 75 /\ scores.communication < 60
         THEN Decided("HOLD", "communication_concerns")
    ELSE IF scores.communication >= 75 /\ scores.technical < 60
            /\ scores.technical > 0
         THEN Decided("HOLD", "technical_validation")
    ELSE IF 60 <= overall_score /\ overall_score < 75
         THEN BorderlineCriteria(overall_score, scores, evaluations)
    ELSE IF overall_score < 60 THEN Decided("HOLD", "below_target")
    ELSE Decided("HOLD", "review_required")

\* Lines 107-292
_determine_recommendation(overall_score, num_questions, scores, evaluations) ==
    LET reject == RejectRule(overall_score, num_questions, scores.technical,
                             evaluations)
    IN  IF irrelevance_count(evaluations) >= 2 THEN Decided("REJECT", "gaming")
        ELSE IF reject # "" THEN Decided("REJECT", reject)
        ELSE IF StrongBand(overall_score)
             THEN ProceedCriteria(overall_score, num_questions, scores.technical,
                                  scores.communication, evaluations)
        ELSE HoldCriteria(overall_score, num_questions, scores, evaluations)

\* The calls looked at: aggregate scores around every threshold of the
\* rules, and up to MaxEvaluations evaluations of these kinds.
OverallScores == { 35, 39, 40, 55, 64, 65, 70, 75, 80, 90 }
TechnicalScores == { 0, 25, 55, 75 }
CommunicationScores == { 55, 75 }
AnsweredTurns == { 5, 7, 8, 10 }

EvaluationKinds ==
    { Evaluation("technical", 30, 60, 0, 0, 1, FALSE),
      Evaluation("technical", 80, 80, 0, 0, 1, FALSE),
      Evaluation(Missing, 60, 60, 0, 5, 0, FALSE),
      Evaluation(Missing, 85, 85, 0, 6, 1, FALSE),
      Evaluation("behavioral", 20, 40, 2, 0, 0, FALSE),
      Evaluation(Missing, 0, 50, 1, 0, 0, TRUE) }

SeqsUpTo(S, n) == UNION { [1 .. m -> S] : m \in 0 .. n }

RecommendationCall(n, t, c, o, ev) ==
    [ fn |-> "_determine_recommendation",
      num_questions |-> n,
      scores |-> [technical |-> t, communication |-> c, culture |-> c,
                  overall |-> o],
      evaluations |-> ev ]

InitRecommendation ==
    /\ SeqIdle
    /\ ConcIdle
    /\ sessions = <<>>
    /\ \E n \in AnsweredTurns, t \in TechnicalScores, c \in CommunicationScores :
       \E o \in OverallScores :
       \E m \in 0 .. MaxEvaluations :
       \E ev \in [1 .. m -> EvaluationKinds] :
          call = RecommendationCall(n, t, c, o, ev)
    /\ result = NoResult

\* The call of generate_summary, lines 21-26
DetermineRecommendation ==
    /\ call.fn = "_determine_recommendation"
    /\ result = NoResult
    /\ \E d \in { _determine_recommendation(call.scores.overall, call.num_questions,
                                            call.scores, call.evaluations) } :
          result' = [fn |-> "_determine_recommendation",
                     recommendation |-> d.recommendation, rule |-> d.rule]
    /\ UNCHANGED <<seqVars, concVars, sessions, call>>

NextRecommendation == DetermineRecommendation

SpecRecommendation == InitRecommendation /\ [][NextRecommendation]_vars

-----------------------------------------------------------------------------
(* EvaluatorAgent.evaluate_answer and the call _evaluate_all_answers makes *)
(* of it: evaluator_agent.py, interview_controller.py                      *)
(*                                                                         *)
(* An answer text is known by what the heuristics read of it: the number   *)
(* of its words, the length of the stripped text, the share of upper-case  *)
(* characters in percent, whether under 15 % of its letters are vowels and *)
(* whether it holds a keyboard-mash pattern.                               *)

Answer(words, chars, upper, low_vowels, mash) ==
    [ words |-> words, chars |-> chars, upper |-> upper,
      low_vowels |-> low_vowels, mash |-> mash ]

\* Line 23
LowSignalTypes == { "warmup", "candidate_questions", "wrapup" }

TooShortOneWord(answer) == answer.words <= 1 \/ answer.chars < 10

\* Line 251
TooShort(answer) == answer.words <= 2 \/ answer.chars < 10

\* Lines 237-275
_is_gibberish(answer, question_type) ==
    IF answer.chars = 0 THEN TRUE
    ELSE IF question_type \in {"candidate_questions", "wrapup", "warmup", "consent"}
         THEN FALSE
    ELSE IF TooShort(answer) THEN TRUE
    ELSE IF answer.chars > 50 /\ answer.upper > 85 THEN TRUE
    ELSE IF answer.low_vowels THEN TRUE
    ELSE answer.mash

Scored(technical, communication, structure, confidence, source, external, checked) ==
    [ technical |-> technical, communication |-> communication,
      structure |-> structure, confidence |-> confidence, source |-> source,
      external_call |-> external, gibberish_checked |-> checked ]

\* Lines 277-305; score = min(10, max(5, word_count // 5))
_fallback_evaluation(answer, external) ==
    LET is_gibberish == answer.words <= 2 \/ answer.chars < 10 \/ answer.upper > 70
        by_length == answer.words \div 5
        score == IF is_gibberish THEN 0
                 ELSE IF by_length > 10 THEN 100
                 ELSE IF by_length > 5 THEN 10 * by_length
                 ELSE 50
    IN  Scored(score, score, score, score, "fallback", external, TRUE)

\* What the scorer's LLM call can come to: the call raises, its text is not
\* JSON, or it is a JSON object with the four scores or without them.
LLMOutcomes ==
    { [kind |-> "fail", has_scores |-> FALSE, score |-> 0],
      [kind |-> "unparsable", has_scores |-> FALSE, score |-> 0],
      [kind |-> "json", has_scores |-> FALSE, score |-> 0],
      [kind |-> "json", has_scores |-> TRUE, score |-> 20],
      [kind |-> "json", has_scores |-> TRUE, score |-> 85] }

\* Lines 215-235
_parse_evaluation(llm) ==
    IF llm.kind = "unparsable" THEN _fallback_evaluation(Answer(0, 0, 0, FALSE, FALSE), TRUE)
    ELSE LET score == IF llm.has_scores THEN llm.score ELSE 50
         IN  Scored(score, score, score, score, "llm", TRUE, TRUE)

\* Lines 17-165
evaluate_answer(answer, question_type, llm) ==
    IF question_type \in LowSignalTypes
    THEN Scored(50, 50, 50, 50, "low_signal", FALSE, FALSE)
    ELSE IF _is_gibberish(answer, question_type)
         THEN Scored(0, 0, 0, 0, "gibberish", FALSE, TRUE)
    ELSE IF llm.kind = "fail" THEN _fallback_evaluation(answer, TRUE)
    ELSE _parse_evaluation(llm)

\* interview_controller.py lines 425-429: the type is taken from the plan by
\* the turn number, "technical" for a turn past the plan.
PlanType(turn_no) ==
    IF 1 <= turn_no /\ turn_no <= Len(BASE_QUESTION_PLAN)
    THEN BASE_QUESTION_PLAN[turn_no] ELSE "technical"

\* Lines 423-446
safe_evaluate(turn_no, answer, llm) ==
    evaluate_answer(answer, PlanType(turn_no), llm)

\* The answers looked at.
AnswerLengths == { 0, 4, 12, 60 }
UpperShares == { 0, 75, 90 }

Answers ==
    { a \in { Answer(w, c, u, lv, m) :
                w \in 0 .. MaxWords, c \in AnswerLengths, u \in UpperShares,
                lv \in BOOLEAN, m \in BOOLEAN } :
        /\ (a.words = 0) <=> (a.chars = 0)
        /\ a.words >= 1 => a.chars >= 2 * a.words - 1
        /\ a.chars = 0 => (a.upper = 0 /\ ~a.low_vowels /\ ~a.mash)
        /\ a.mash => a.chars >= 5 }

\* The turns generate_next_question and the controller produce: a core turn
\* asks for the plan's category, a later turn is the controller's fallback
\* question (motivation), the candidate-Q&A prompt or the wrap-up.
AnsweredTurnKinds ==
    { [turn_no |-> n, category |-> BASE_QUESTION_PLAN[n]] :
        n \in 1 .. MIN_CORE_QUESTIONS }
    \cup [ turn_no : (MIN_CORE_QUESTIONS + 1) .. MAX_QUESTIONS,
           category : {"motivation", "candidate_questions", "wrapup"} ]

ScoringCalls ==
    { [fn |-> "evaluate_answer", turn |-> t, answer |-> a, llm |-> l] :
        t \in AnsweredTurnKinds, a \in Answers, l \in LLMOutcomes }

InitScoring ==
    /\ SeqIdle
    /\ ConcIdle
    /\ sessions = <<>>
    /\ call \in ScoringCalls
    /\ result = NoResult

\* safe_evaluate on one question-answer pair of the transcript
SafeEvaluate ==
    /\ call.fn = "evaluate_answer"
    /\ result = NoResult
    /\ \E e \in { safe_evaluate(call.turn.turn_no, call.answer, call.llm) } :
          result' = [fn |-> "evaluate_answer", evaluation |-> e]
    /\ UNCHANGED <<seqVars, concVars, sessions, call>>

NextScoring == SafeEvaluate

SpecScoring == InitScoring /\ [][NextScoring]_vars

-----------------------------------------------------------------------------
(* The life of an interview session: create_interview, get_disclosure,     *)
(* submit_consent and get_next_question on the sessions of one candidate.  *)
(* session_status is the status of the candidate's first interview, whose  *)
(* state and transcript the stores hold; sessions holds the status of each *)
(* interview created for the candidate after it.                           *)

\* session_service.py line 19: the statuses check_active_interview selects
ActiveStatuses == { "CREATED", "INTERVIEW_IN_PROGRESS" }

\* Lines 10-22: is there a row of the candidate with such a status
check_active_interview(first_status, later) ==
    \/ first_status \in ActiveStatuses
    \/ \E i \in DOMAIN later : later[i] \in ActiveStatuses

\* compliance_service.py lines 16-19
validate_consent(consent) ==
    consent \in { "yes", "y", "sure", "okay", "proceed", "agree" }

ConsentTexts == { "yes", "no" }

LifecycleResponse(kind) ==
    [kind |-> kind, turnNo |-> 0, questionType |-> "", question |-> NoText]

\* interview_controller.py lines 70-72
DisclosedStatus(status) ==
    IF status = "CREATED" THEN "DISCLOSURE_DONE" ELSE status

\* Lines 96-107
ConsentStatus(consent) ==
    IF validate_consent(consent) THEN "CONSENT_GRANTED" ELSE "ENDED"

SystemTurn(text) == [turn_no |-> 0, speaker |-> "system", text |-> text]

InitLifecycle ==
    /\ stored = <<>>
    /\ turns = <<>>
    /\ session_status = "CREATED"
    /\ job = Job(<<"sql">>, <<>>, <<"etl">>)
    /\ tables = NoTables
    /\ response = NoResponse
    /\ drafter = NotCalled
    /\ ConcIdle
    /\ AuxIdle

\* create_interview (lines 29-58) for the same candidate
CreateInterview ==
    /\ Len(sessions) < MaxOtherInterviews
    /\ IF check_active_interview(session_status, sessions)
       THEN /\ response' = LifecycleResponse("create_refused")
            /\ UNCHANGED sessions
       ELSE /\ sessions' = Append(sessions, "CREATED")
            /\ response' = LifecycleResponse("created")
    /\ UNCHANGED <<stored, turns, session_status, job, tables, drafter, concVars,
                   call, result>>

\* get_disclosure (lines 60-81) on the first interview
GetDisclosure ==
    /\ session_status' = DisclosedStatus(session_status)
    /\ turns' = IF session_status = "CREATED"
                THEN Append(turns, SystemTurn(Text("fixed", "disclosure")))
                ELSE turns
    /\ response' = LifecycleResponse("disclosure")
    /\ UNCHANGED <<stored, job, tables, drafter, concVars, auxVars>>

\* get_disclosure on a later interview
GetDisclosureLater(i) ==
    /\ sessions' = [sessions EXCEPT ![i] = DisclosedStatus(@)]
    /\ response' = LifecycleResponse("disclosure")
    /\ UNCHANGED <<stored, turns, session_status, job, tables, drafter, concVars,
                   call, result>>

\* submit_consent (lines 83-113) on the first interview
SubmitConsent(consent) ==
    /\ session_status' = ConsentStatus(consent)
    /\ response' = LifecycleResponse(IF validate_consent(consent)
                                     THEN "consent_granted" ELSE "consent_denied")
    /\ UNCHANGED <<stored, turns, job, tables, drafter, concVars, auxVars>>

\* submit_consent on a later interview
SubmitConsentLater(i, consent) ==
    /\ sessions' = [sessions EXCEPT ![i] = ConsentStatus(consent)]
    /\ response' = LifecycleResponse(IF validate_consent(consent)
                                     THEN "consent_granted" ELSE "consent_denied")
    /\ UNCHANGED <<stored, turns, session_status, job, tables, drafter, concVars,
                   call, result>>

NextLifecycle ==
    \/ CreateInterview
    \/ GetDisclosure
    \/ \E consent \in ConsentTexts : SubmitConsent(consent)
    \/ (Len(turns) < MaxLifecycleTurns /\ GetNextQuestion)
    \/ \E i \in DOMAIN sessions : GetDisclosureLater(i)
    \/ \E i \in DOMAIN sessions, consent \in ConsentTexts :
          SubmitConsentLater(i, consent)

SpecLifecycle == InitLifecycle /\ [][NextLifecycle]_vars

-----------------------------------------------------------------------------
(* The handlers by interview id, submit_answer, finish_interview and       *)
(* get_report: interview_controller.py. The session table holds the row of *)
(* the candidate's first interview and the rows of the later ones; an id   *)
(* that matches no row is UnknownInterview.                                *)

FirstInterview == "INT-first"
UnknownInterview == "INT-unknown"
InterviewIds == { FirstInterview, UnknownInterview }

\* session_service.py lines 49-52: the row, or None (found is FALSE)
get_session(interview_id) ==
    IF interview_id = FirstInterview
    THEN [found |-> TRUE, status |-> session_status]
    ELSE [found |-> FALSE, status |-> ""]

CandidateTurn(turn_no, text) ==
    [turn_no |-> turn_no, speaker |-> "candidate", text |-> text]

\* What a candidate sends as an answer: a substantive sentence (which, after
\* the candidate-Q&A prompt, is a question of the candidate), a word or two,
\* or a declining phrase such as "no questions".
CandidateAnswers ==
    { Text("candidate", "substantive"), Text("candidate", "short"),
      Text("candidate", "declining") }

\* The features of these answers the scorer looks at.
AnswerOf(text) ==
    IF text.for = "substantive" THEN Answer(4, 60, 0, FALSE, FALSE)
    ELSE IF text.for = "declining" THEN Answer(2, 12, 0, FALSE, FALSE)
    ELSE IF text.for = "shouted" THEN Answer(4, 12, 75, FALSE, FALSE)
    ELSE Answer(1, 4, 0, FALSE, FALSE)

\* Lines 206-212: the last agent turn of that number is the candidate-Q&A
\* prompt
AnswersCandidateQA(rows, turn_no) ==
    \E i \in DOMAIN rows :
        /\ rows[i].speaker = "agent" /\ rows[i].turn_no = turn_no
        /\ rows[i].text = Text("fixed", "candidate_questions")
        /\ \A k \in (i + 1) .. Len(rows) :
              ~(rows[k].speaker = "agent" /\ rows[k].turn_no = turn_no)

\* Lines 216-221
AsksSomething(text) == text.for = "substantive"

\* Lines 394-409: the turn numbers that have an agent turn and a candidate
\* turn, in ascending order, each with the text a dict keeps for it (the last)
LastText(rows, speaker, turn_no) ==
    LET last == CHOOSE i \in DOMAIN rows :
                    /\ rows[i].speaker = speaker /\ rows[i].turn_no = turn_no
                    /\ \A k \in (i + 1) .. Len(rows) :
                          ~(rows[k].speaker = speaker /\ rows[k].turn_no = turn_no)
    IN  rows[last].text

RECURSIVE SortedSeq(_)
SortedSeq(S) ==
    IF S = {} THEN <<>>
    ELSE LET m == CHOOSE x \in S : \A y \in S : x <= y
         IN  <<m>> \o SortedSeq(S \ {m})

_extract_qa_pairs(rows) ==
    LET asked == { rows[i].turn_no : i \in { k \in DOMAIN rows : rows[k].speaker = "agent" } }
        answered == { rows[i].turn_no : i \in { k \in DOMAIN rows : rows[k].speaker = "candidate" } }
        numbers == SortedSeq(asked \cap answered)
    IN  [ i \in DOMAIN numbers |->
            [ turn_no  |-> numbers[i],
              question |-> LastText(rows, "agent", numbers[i]),
              answer   |-> LastText(rows, "candidate", numbers[i]) ] ]

\* Lines 411-453: one evaluation per pair; llms[i] is what the scorer's LLM
\* call comes to for pair i.
_evaluate_all_answers(rows, llms) ==
    LET qa_pairs == _extract_qa_pairs(rows)
    IN  [ i \in DOMAIN qa_pairs |->
            safe_evaluate(qa_pairs[i].turn_no, AnswerOf(qa_pairs[i].answer), llms[i]) ]

\* A quotient of integers, for the averages aggregate_scores forms.
Rat(num, den) == [num |-> num, den |-> den]

SeqOfKey(evaluations, key) == [ i \in DOMAIN evaluations |-> evaluations[i][key] ]

\* evaluator_agent.py lines 335-345, scores in tenths
_calculate_smoothed_avg(scores) ==
    IF Len(scores) < 3 THEN Rat(SumSeq(scores), Len(scores))
    ELSE LET min_score == MinSeq(scores)
             differing == SelectSeq(scores, LAMBDA s : s # min_score)
             others == IF Len(differing) < Len(scores) - 1
                       THEN Append(differing, min_score) ELSE differing
         IN  IF SumSeq(others) - min_score * Len(others) > 40 * Len(others)
             THEN Rat(7 * SumSeq(others) + 3 * min_score * Len(others),
                      10 * Len(others))
             ELSE Rat(SumSeq(scores), Len(scores))

\* evaluator_agent.py lines 307-333; int(x * 10) of an average on the scale
\* of ten is the whole part of the average in tenths.
aggregate_scores(evaluations) ==
    IF evaluations = <<>>
    THEN [technical |-> 0, communication |-> 0, culture |-> 0, overall |-> 0]
    ELSE
      LET n == Len(evaluations)
          tech_turns ==
              SelectSeq(evaluations,
                        LAMBDA e : HasAttr(e, "type") /\ e.type \in {"technical", "scenario"})
          technical_avg ==
              IF tech_turns # <<>>
              THEN _calculate_smoothed_avg(SeqOfKey(tech_turns, "technical"))
              ELSE Rat(SumSeq(SeqOfKey(evaluations, "technical")), n)
          communication == SumSeq(SeqOfKey(evaluations, "communication"))
          culture == SumSeq(SeqOfKey(evaluations, "structure"))
                       + SumSeq(SeqOfKey(evaluations, "confidence"))
      IN  [ technical     |-> technical_avg.num \div technical_avg.den,
            communication |-> communication \div n,
            culture       |-> culture \div (2 * n),
            overall       |-> (2 * n * technical_avg.num
                                 + (2 * communication + culture) * technical_avg.den)
                              \div (6 * n * technical_avg.den) ]

\* What _determine_recommendation reads of an evaluation the scorer made:
\* the lists of evaluator_agent.py lines 24-41 and 296-305, and for an
\* evaluation written by the LLM one red flag and one improvement with a low
\* score, one strength with a high score.
EvaluationOf(scored) ==
    LET t == scored.technical
        c == scored.communication
    IN  IF scored.source = "low_signal" THEN Evaluation(Missing, t, c, 0, 0, 1, FALSE)
        ELSE IF scored.source = "gibberish" THEN Evaluation(Missing, t, c, 0, 1, 0, FALSE)
        ELSE IF scored.source = "fallback"
             THEN IF t = 0 THEN Evaluation(Missing, t, c, 1, 0, 0, FALSE)
                  ELSE Evaluation(Missing, t, c, 0, 1, 1, FALSE)
        ELSE IF t < 50 THEN Evaluation(Missing, t, c, 1, 1, 0, FALSE)
        ELSE IF t > 50 THEN Evaluation(Missing, t, c, 0, 0, 1, FALSE)
        ELSE Evaluation(Missing, t, c, 0, 0, 0, FALSE)

CandidateTurns(rows) == SelectSeq(rows, LAMBDA t : t.speaker = "candidate")

\* summary_service.py lines 8-35
generate_summary(scores, rows, evaluations) ==
    LET d == _determine_recommendation(
                 scores.overall, Len(CandidateTurns(rows)), scores,
                 [ i \in DOMAIN evaluations |-> EvaluationOf(evaluations[i]) ])
    IN  [ recommendation |-> d.recommendation,
          concerns |-> "generated",
          num_questions_answered |-> Len(CandidateTurns(rows)) ]

\* A fallback summary without a verdict.
SummaryFallbackNone(rows) ==
    [ recommendation |-> None, concerns |-> "Internal summary generator error",
      num_questions_answered |-> Len(CandidateTurns(rows)) ]

\* interview_controller.py lines 295-300
SummaryFallback(rows) ==
    [ recommendation |-> "HOLD",
      concerns |-> "Internal summary generator error",
      num_questions_answered |-> Len(CandidateTurns(rows)) ]

\* The stages of finish_interview that sit in a try of their own
\* (lines 272-277, 283-288, 291-300, 303-314, 317-320, 323-335), and the
\* reading of the transcript at line 268, which does not.
GuardedStages ==
    { "evaluation", "signals", "summary", "persistence", "status_update", "ats_sync" }

FailureSets == (SUBSET GuardedStages) \cup { {"get_turns"} }

Report(interview_id, recommendation, scores, concerns) ==
    [ fn |-> "finish_interview", interviewId |-> interview_id,
      recommendation |-> recommendation, overallScore |-> scores.overall,
      scores |-> scores, concerns |-> concerns, status |-> "COMPLETED" ]

\* Lines 348-361
UltimateFallback(interview_id) ==
    Report(interview_id, "HOLD",
           [technical |-> 50, communication |-> 50, culture |-> 50, overall |-> 50],
           "Technical error during final report generation")

FinishCall(interview_id, failed) ==
    [ fn |-> "finish_interview", interview_id |-> interview_id, failed |-> failed ]

\* The reply to a handler that raised ValueError: the route's 404
NotFound ==
    /\ response' = LifecycleResponse("not_found")
    /\ UNCHANGED <<stored, turns, session_status, job, tables, drafter, concVars,
                   auxVars>>

\* finish_interview (lines 260-361). failed is the set of stages that raise
\* in this call, llms what the scorer's LLM calls come to. The first call of
\* finish_interview is the one looked at.
FinishInterview(interview_id) ==
    /\ call = NoCall
    /\ \E failed \in FailureSets :
       \E llms \in [DOMAIN _extract_qa_pairs(turns) -> LLMOutcomes] :
       \E session \in {get_session(interview_id)} :
       \E evaluations \in { IF "evaluation" \in failed THEN <<>>
                            ELSE _evaluate_all_answers(turns, llms) } :
       \E scores \in {aggregate_scores(evaluations)} :
       \E summary \in { IF "summary" \in failed THEN SummaryFallback(turns)
                        ELSE generate_summary(scores, turns, evaluations) } :
          /\ call' = FinishCall(interview_id, failed)
          /\ response' = LifecycleResponse("finish_report")
          /\ IF ~session.found \/ "get_turns" \in failed
             THEN /\ result' = UltimateFallback(interview_id)
                  /\ UNCHANGED <<session_status, tables>>
             ELSE /\ result' = Report(interview_id, summary.recommendation, scores,
                                      summary.concerns)
                  /\ tables' =
                       [ interview_signals |->
                           IF "signals" \in failed THEN tables.interview_signals
                           ELSE Append(tables.interview_signals, Len(CandidateTurns(turns))),
                         interview_scores |->
                           IF "persistence" \in failed THEN tables.interview_scores
                           ELSE Append(tables.interview_scores,
                                       [ overall_score |-> scores.overall,
                                         recommendation |-> summary.recommendation ]),
                         ats |->
                           IF "ats_sync" \in failed THEN tables.ats
                           ELSE Append(tables.ats, summary.recommendation) ]
                  /\ session_status' = IF "status_update" \in failed
                                       THEN session_status ELSE "COMPLETED"
    /\ UNCHANGED <<stored, turns, job, drafter, concVars, sessions>>

\* get_disclosure (lines 60-81) by interview id
Disclosure(interview_id) ==
    IF get_session(interview_id).found THEN GetDisclosure ELSE NotFound

\* submit_consent (lines 83-113) by interview id
Consent(interview_id, consent) ==
    IF get_session(interview_id).found THEN SubmitConsent(consent) ELSE NotFound

\* get_next_question (lines 115-191) by interview id
NextQuestion(interview_id) ==
    IF get_session(interview_id).found
    THEN Len(turns) < MaxByIdTurns /\ GetNextQuestion
    ELSE NotFound

\* submit_answer (lines 193-250). llm_answers: whether the call that answers
\* the candidate's own question succeeds.
SubmitAnswer(interview_id, turn_no, answer) ==
    IF ~get_session(interview_id).found THEN NotFound
    ELSE /\ Len(turns) < MaxByIdTurns
         /\ \E llm_answers \in BOOLEAN :
              turns' =
                IF AnswersCandidateQA(turns, turn_no) /\ AsksSomething(answer) /\ llm_answers
                THEN turns \o << CandidateTurn(turn_no, answer),
                                 AgentTurn(turn_no, Text("llm", "answer_to_candidate")) >>
                ELSE Append(turns, CandidateTurn(turn_no, answer))
         /\ response' = LifecycleResponse("received")
         /\ UNCHANGED <<stored, session_status, job, tables, drafter, concVars, auxVars>>

\* get_report (lines 363-392): the session's status and the first scores row
GetReport(interview_id) ==
    IF ~get_session(interview_id).found THEN NotFound
    ELSE /\ response' = LifecycleResponse("report")
         /\ UNCHANGED <<stored, turns, session_status, job, tables, drafter, concVars,
                        auxVars>>

AgentTurnNumbers == { turns[i].turn_no : i \in { k \in DOMAIN turns : turns[k].speaker = "agent" } }

NextById ==
    \/ \E id \in InterviewIds : FinishInterview(id)
    \/ \E id \in InterviewIds : Disclosure(id)
    \/ \E id \in InterviewIds, consent \in ConsentTexts : Consent(id, consent)
    \/ \E id \in InterviewIds : NextQuestion(id)
    \/ \E id \in InterviewIds, n \in AgentTurnNumbers \cup {1}, a \in CandidateAnswers :
          SubmitAnswer(id, n, a)
    \/ \E id \in InterviewIds : GetReport(id)

\* Every handler that takes an interview id, called with the id of the
\* candidate's interview or with an id that matches no row.
SpecById == InitLifecycle /\ [][NextById]_vars

\* The transcript of an interview in which the first Len(answers) questions
\* of the plan were drafted, asked and answered.
RECURSIVE AnsweredTranscript(_)
AnsweredTranscript(answers) ==
    IF answers = <<>> THEN << SystemTurn(Text("fixed", "disclosure")) >>
    ELSE LET n == Len(answers)
         IN  AnsweredTranscript(SubSeq(answers, 1, n - 1))
               \o << AgentTurn(n, Text("drafted", BASE_QUESTION_PLAN[n])),
                      CandidateTurn(n, answers[n]) >>

\* The state object after the first n questions of the plan were drafted.
RECURSIVE AskedState(_, _)
AskedState(j, n) ==
    IF n = 0 THEN NewCandidateState
    ELSE generate_next_question(
             AskedState(j, n - 1), j,
             [kind |-> "json", has_question |-> TRUE,
              type |-> BASE_QUESTION_PLAN[n]]).state

\* An interview at the time finish_interview is called: just created, or in
\* progress with up to MaxAnswered answered questions; no later interview.
InitFinish ==
    /\ job = Job(<<"sql">>, <<>>, <<"etl">>)
    /\ \/ /\ session_status = "CREATED"
          /\ turns = <<>>
          /\ stored = <<>>
       \/ /\ session_status = "INTERVIEW_IN_PROGRESS"
          /\ \E answers \in SeqsUpTo(CandidateAnswers, MaxAnswered) :
                /\ answers # <<>>
                /\ turns = AnsweredTranscript(answers)
                /\ stored = save_state(<<>>, AskedState(job, Len(answers)))
    /\ tables = NoTables
    /\ response = NoResponse
    /\ drafter = NotCalled
    /\ ConcIdle
    /\ AuxIdle

NextFinish ==
    \/ \E id \in InterviewIds : FinishInterview(id)
    \/ CreateInterview

SpecFinish == InitFinish /\ [][NextFinish]_vars

-----------------------------------------------------------------------------
(* The policy on its own: generate_next_question and should_add_followup   *)
(* applied to a state object in the extension window. The object is what   *)
(* live scoring would have left: update_performance applied to the scores  *)
(* of the answers, red flags collected, and either no category_scores      *)
(* attribute (the dataclass) or the attribute the policy reads.            *)

\* An update that leaves the run of strong answers standing after a weak
\* one.
update_performance_keeps_strong(state, score) ==
    LET trend == Append(state.performance_trend, score)
    IN  [state EXCEPT
           !.performance_trend = trend,
           !.last_score = score,
           !.struggle_count = IF score < 50 THEN @ + 1 ELSE 0,
           !.strong_answer_count = IF score >= 80 THEN @ + 1
                                   ELSE IF score < 50 THEN @ ELSE 0,
           !.overall_score = SumSeq(trend) \div Len(trend)]

\* candidate_state.py lines 72-90; overall_score is kept to whole tenths
update_performance(state, score) ==
    LET trend == Append(state.performance_trend, score)
    IN  [state EXCEPT
           !.performance_trend = trend,
           !.last_score = score,
           !.struggle_count = IF score < 50 THEN @ + 1 ELSE 0,
           !.strong_answer_count = IF score >= 80 THEN @ + 1 ELSE 0,
           !.overall_score = SumSeq(trend) \div Len(trend)]

RECURSIVE Scored_through(_, _)
Scored_through(state, scores) ==
    IF scores = <<>> THEN state
    ELSE update_performance(Scored_through(state, SubSeq(scores, 1, Len(scores) - 1)),
                            scores[Len(scores)])

\* The scores looked at: a weak, a middling and an exceptional answer.
PolicyScores == { 30, 60, 95 }

CoreTopics == PySet(BASE_QUESTION_PLAN)

\* The state after the core plan (the cursor at 8) or after one more
\* question (at 9), before the candidate-Q&A prompt.
WindowCounts == MIN_CORE_QUESTIONS .. (MAX_QUESTIONS - END_INTERVIEW_BUFFER - 1)

RedFlagLists == UNION { [1 .. n -> {"red flag"}] : n \in 0 .. MaxRedFlags }

\* Per category: no score, a weak score, a strong score.
CategoryScoreSets ==
    [ PySet(ImportantCategories) -> { <<>>, <<50>>, <<80>> } ]

WindowStates ==
    { [Scored_through(NewCandidateState, scores)
         EXCEPT !.question_count = n, !.red_flags = rf,
                !.topics_covered = CoreTopics,
                !.last_question_type = BASE_QUESTION_PLAN[MIN_CORE_QUESTIONS]] :
        scores \in SeqsUpTo(PolicyScores, MaxScored), n \in WindowCounts,
        rf \in RedFlagLists }

WithCategoryScores ==
    { SetAttr(s, "category_scores", cs) :
        s \in { w \in WindowStates : Len(w.performance_trend) <= 1 },
        cs \in CategoryScoreSets }

\* States at any cursor from the end of the core plan up to the maximum,
\* whose last question was of the given type.
FollowupStates ==
    { [Scored_through(NewCandidateState, scores)
         EXCEPT !.question_count = n, !.last_question_type = t,
                !.topics_covered = CoreTopics] :
        scores \in SeqsUpTo(PolicyScores, MaxScored) \ {<<>>},
        n \in MIN_CORE_QUESTIONS .. MAX_QUESTIONS,
        t \in {"technical", "scenario", "culture"} }

PolicyCalls ==
    [ fn : {"generate_next_question"}, state : WindowStates \cup WithCategoryScores,
      d : DrafterOutcomes ]
    \cup [ fn : {"should_add_followup"}, state : FollowupStates ]

InitPolicy ==
    /\ SeqIdle
    /\ ConcIdle
    /\ sessions = <<>>
    /\ call \in PolicyCalls
    /\ result = NoResult

\* generate_next_question as get_next_question calls it (lines 137-157):
\* action is what decide_termination answered, question and state what the
\* controller goes on with, after its except branch if the engine raised.
NextQuestionOfPolicy ==
    /\ call.fn = "generate_next_question"
    /\ result = NoResult
    /\ \E t \in {decide_termination(call.state)} :
       \E r \in {generate_next_question(call.state, NoJob, call.d)} :
          result' = [ fn |-> "generate_next_question",
                      action |-> IF t.raised THEN "raised" ELSE t.value.action,
                      raised |-> r.raised,
                      question |-> IF r.raised THEN ErrorFallbackQuestion.question
                                   ELSE r.value.question,
                      state |-> IF r.raised THEN OnAgentError(r.state) ELSE r.state ]
    /\ UNCHANGED <<seqVars, concVars, sessions, call>>

\* should_add_followup (lines 90-122) on its own
ShouldAddFollowup ==
    /\ call.fn = "should_add_followup"
    /\ result = NoResult
    /\ result' = [ fn |-> "should_add_followup",
                   followup_type |-> should_add_followup(call.state) ]
    /\ UNCHANGED <<seqVars, concVars, sessions, call>>

NextPolicy == NextQuestionOfPolicy \/ ShouldAddFollowup

SpecPolicy == InitPolicy /\ [][NextPolicy]_vars

-----------------------------------------------------------------------------
(* get_next_question on a state store whose reads and writes can raise.    *)
(* load_state answers None when its select raises just as when there is no *)
(* row; save_state prints the error and returns False.                     *)

\* Lines 30-45: read says whether the select went through.
load_state_result(rows, read) == IF read THEN load_state(rows) ELSE <<>>

\* Lines 48-64: the state object and the rows after get_or_create_state.
get_or_create_state_result(rows, read, written) ==
    IF load_state_result(rows, read) = <<>>
    THEN [state |-> NewCandidateState,
          rows |-> save_state_result(rows, NewCandidateState, written)]
    ELSE [state |-> load_state_result(rows, read)[1], rows |-> rows]

\* One whole call of get_next_question (lines 115-191): read, created and
\* saved say which accesses to candidate_states go through.
GetNextQuestionOnFaultyStore ==
    /\ Len(turns) < MaxTurnRows
    /\ \E d \in DrafterOutcomes, read \in BOOLEAN, created \in BOOLEAN, saved \in BOOLEAN :
       \E g \in {get_or_create_state_result(stored, read, created)} :
       \E r \in {generate_next_question(g.state, job, d)} :
       \E state \in {IF r.raised THEN OnAgentError(r.state) ELSE r.state} :
       \E qd \in {IF r.raised THEN ErrorFallbackQuestion ELSE r.value} :
          /\ drafter' = IF DrafterConsulted(g.state) THEN d ELSE NotCalled
          /\ IF qd = NoQuestionData
             THEN /\ stored' = IF r.raised THEN save_state_result(g.rows, state, saved)
                               ELSE g.rows
                  /\ turns' = turns
                  /\ session_status' = "COMPLETED"
                  /\ response' = CompletionResponse(state)
             ELSE /\ stored' = save_state_result(g.rows, state, saved)
                  /\ turns' = Append(turns, AgentTurn(state.question_count, qd.question))
                  /\ session_status' = StartedStatus(session_status)
                  /\ response' = QuestionResponse(state, qd)
    /\ UNCHANGED <<job, tables, concVars, auxVars>>

NextFaultyStore == GetNextQuestionOnFaultyStore

SpecFaultyStore == Init /\ [][NextFaultyStore]_vars

-----------------------------------------------------------------------------
(* The interview of Init for a job with two or with three distinct         *)
(* must-have skills.                                                       *)

SkillJobs ==
    { Job(<<"sql", "python">>, <<"excel">>, <<>>),
      Job(<<"sql", "python", "spark">>, <<>>, <<"etl">>) }

InitSkills ==
    /\ stored = <<>>
    /\ turns = <<>>
    /\ session_status = "CONSENT_GRANTED"
    /\ job \in SkillJobs
    /\ tables = NoTables
    /\ response = NoResponse
    /\ drafter = NotCalled
    /\ ConcIdle
    /\ AuxIdle

SpecSkills == InitSkills /\ [][Next]_vars

-----------------------------------------------------------------------------
(* _evaluate_all_answers as the thread pool runs it: executor.map hands    *)
(* the pairs to at most MAX_WORKERS workers in the order of the list, a    *)
(* worker runs safe_evaluate on its pair, and the results are collected in *)
(* the order of the pairs: interview_controller.py lines 411-453.          *)

\* Line 417
MAX_WORKERS == 5

\* The answers of a batch: those a candidate sends, and one of four words
\* mostly in capitals ("I DO SQL ETL").
BatchAnswers == CandidateAnswers \cup { Text("candidate", "shouted") }

GoodResponse == [kind |-> "json", has_scores |-> TRUE, score |-> 85]

\* Batches of up to MaxPairs answered questions: substantive answers scored
\* by the LLM, but for one pair, which has any answer and any outcome of the
\* LLM call.
BatchInputs ==
    { [ answers |-> [ i \in 1 .. n |->
                        IF i = f THEN a ELSE Text("candidate", "substantive") ],
        llms |-> [ i \in 1 .. n |-> IF i = f THEN l ELSE GoodResponse ] ] :
        n \in 0 .. MaxPairs, f \in 1 .. MaxPairs, a \in BatchAnswers, l \in LLMOutcomes }

\* An interview in progress whose first questions were answered, the next
\* one asked or not, at the time its answers are scored.
InitBatch ==
    /\ job = Job(<<"sql">>, <<>>, <<"etl">>)
    /\ session_status = "INTERVIEW_IN_PROGRESS"
    /\ \E b \in BatchInputs :
       \E asked \in 0 .. 1 :
          /\ turns = AnsweredTranscript(b.answers)
                       \o ( IF asked = 1
                            THEN << AgentTurn(Len(b.answers) + 1,
                                              Text("drafted",
                                                   BASE_QUESTION_PLAN[Len(b.answers) + 1])) >>
                            ELSE <<>> )
          /\ stored = save_state(<<>>, AskedState(job, Len(b.answers) + asked))
          /\ call = [fn |-> "_evaluate_all_answers", llms |-> b.llms]
    /\ tables = NoTables
    /\ response = NoResponse
    /\ drafter = NotCalled
    /\ ConcIdle
    /\ sessions = <<>>
    /\ result = NoResult

\* Lines 413-421 and 448-449: the pairs are extracted and submitted
EvaluateAllAnswers ==
    /\ call.fn = "_evaluate_all_answers"
    /\ result = NoResult
    /\ result' = [ fn |-> "_evaluate_all_answers",
                   qa_pairs |-> _extract_qa_pairs(turns),
                   running |-> {}, results |-> <<>>,
                   returned |-> FALSE, evaluations |-> <<>> ]
    /\ UNCHANGED <<seqVars, concVars, sessions, call>>

Batching == result.fn = "_evaluate_all_answers" /\ ~result.returned

Started == result.running \cup DOMAIN result.results

\* A free worker of the pool takes the next pair of the list.
WorkerTakes(i) ==
    /\ Batching
    /\ i \in DOMAIN result.qa_pairs \ Started
    /\ \A k \in DOMAIN result.qa_pairs \ Started : i <= k
    /\ Cardinality(result.running) < MAX_WORKERS
    /\ result' = [result EXCEPT !.running = @ \cup {i}]
    /\ UNCHANGED <<seqVars, concVars, sessions, call>>

\* The worker's safe_evaluate returns (lines 423-446); the result is kept
\* at the place of its pair, here with the pair's turn number beside it.
WorkerReturns(i) ==
    /\ Batching
    /\ i \in result.running
    /\ \E e \in { safe_evaluate(result.qa_pairs[i].turn_no,
                                AnswerOf(result.qa_pairs[i].answer), call.llms[i]) } :
          result' = [result EXCEPT
                       !.running = @ \ {i},
                       !.results = [ k \in DOMAIN @ \cup {i} |->
                                       IF k = i
                                       THEN [turn_no |-> result.qa_pairs[i].turn_no,
                                             evaluation |-> e]
                                       ELSE @[k] ] ]
    /\ UNCHANGED <<seqVars, concVars, sessions, call>>

\* Lines 449-453: all results are in, the list is returned
ReturnEvaluations ==
    /\ Batching
    /\ DOMAIN result.results = DOMAIN result.qa_pairs
    /\ result' = [result EXCEPT !.returned = TRUE, !.evaluations = result.results]
    /\ UNCHANGED <<seqVars, concVars, sessions, call>>

NextBatch ==
    \/ EvaluateAllAnswers
    \/ \E i \in 1 .. MaxPairs : WorkerTakes(i)
    \/ \E i \in 1 .. MaxPairs : WorkerReturns(i)
    \/ ReturnEvaluations

SpecBatch == InitBatch /\ [][NextBatch]_vars

-----------------------------------------------------------------------------
(* The verdict of finish_interview on a complete interview: the answers of *)
(* the 8 planned turns are scored, the scores aggregated and the summary   *)
(* generated (interview_controller.py lines 268-300), for a job whose id   *)
(* names a senior role or not.                                             *)

\* interview_sessions.job_id of the interview
JobIds == { "SENIOR-DATA-ENGINEER", "DATA-ANALYST" }

\* What the scorer's LLM returns for an answer here: the four scores, high,
\* or an object without them (5.0 each, evaluator_agent.py lines 229-231).
VerdictResponses == { GoodResponse, [kind |-> "json", has_scores |-> FALSE, score |-> 0] }

RECURSIVE Repeat(_, _)
Repeat(x, n) == IF n = 0 THEN <<>> ELSE <<x>> \o Repeat(x, n - 1)

InitVerdict ==
    /\ job = Job(<<"sql">>, <<>>, <<"etl">>)
    /\ session_status = "INTERVIEW_IN_PROGRESS"
    /\ turns = AnsweredTranscript(Repeat(Text("candidate", "substantive"),
                                         MIN_CORE_QUESTIONS))
    /\ stored = save_state(<<>>, AskedState(job, MIN_CORE_QUESTIONS))
    /\ \E id \in JobIds :
       \E llms \in [1 .. MIN_CORE_QUESTIONS -> VerdictResponses] :
          call = [fn |-> "finish_verdict", job_id |-> id, llms |-> llms]
    /\ tables = NoTables
    /\ response = NoResponse
    /\ drafter = NotCalled
    /\ ConcIdle
    /\ sessions = <<>>
    /\ result = NoResult

\* Lines 268-300 with no stage failing: what finish_interview reports
FinishVerdict ==
    /\ call.fn = "finish_verdict"
    /\ result = NoResult
    /\ \E evaluations \in { _evaluate_all_answers(turns, call.llms) } :
       \E scores \in { aggregate_scores(evaluations) } :
       \E summary \in { generate_summary(scores, turns, evaluations) } :
          result' = [ fn |-> "finish_verdict",
                      recommendation |-> summary.recommendation,
                      scores |-> scores,
                      red_flags |-> red_flag_count(
                          [ i \in DOMAIN evaluations |-> EvaluationOf(evaluations[i]) ]) ]
    /\ UNCHANGED <<seqVars, concVars, sessions, call>>

NextVerdict == FinishVerdict

SpecVerdict == InitVerdict /\ [][NextVerdict]_vars

-----------------------------------------------------------------------------
(* _calculate_smoothed_avg and update_performance on their own:            *)
(* evaluator_agent.py lines 335-345, candidate_state.py lines 72-90.       *)

\* The scores of one category, in tenths.
CategoryScores == { 0, 30, 50, 80, 100 }

InitSmoothing ==
    /\ SeqIdle
    /\ ConcIdle
    /\ sessions = <<>>
    /\ \E scores \in SeqsUpTo(CategoryScores, MaxCategoryScores) :
          /\ scores # <<>>
          /\ call = [fn |-> "_calculate_smoothed_avg", scores |-> scores]
    /\ result = NoResult

\* The call of aggregate_scores, line 315
CalculateSmoothedAvg ==
    /\ call.fn = "_calculate_smoothed_avg"
    /\ result = NoResult
    /\ \E avg \in { _calculate_smoothed_avg(call.scores) } :
          result' = [fn |-> "_calculate_smoothed_avg", num |-> avg.num, den |-> avg.den]
    /\ UNCHANGED <<seqVars, concVars, sessions, call>>

NextSmoothing == CalculateSmoothedAvg

SpecSmoothing == InitSmoothing /\ [][NextSmoothing]_vars

\* The scores an evaluation hands to update_performance, in tenths, on
\* both sides of 5.0 and of 8.0.
PerformanceScores == { 30, 49, 50, 79, 80, 95 }

\* A state object as it is constructed, before any answer was scored.
InitPerformance ==
    /\ SeqIdle
    /\ ConcIdle
    /\ sessions = <<>>
    /\ call = [fn |-> "update_performance", scores |-> <<>>]
    /\ result = [fn |-> "update_performance", state |-> NewCandidateState]

\* state.update_performance(score)
UpdatePerformance(score) ==
    /\ call.fn = "update_performance"
    /\ Len(call.scores) < MaxUpdates
    /\ call' = [call EXCEPT !.scores = Append(@, score)]
    /\ result' = [result EXCEPT !.state = update_performance(@, score)]
    /\ UNCHANGED <<seqVars, concVars, sessions>>

NextPerformance == \E score \in PerformanceScores : UpdatePerformance(score)

SpecPerformance == InitPerformance /\ [][NextPerformance]_vars

-----------------------------------------------------------------------------
(* get_next_question on an interview that finish_interview has reported:   *)
(* the first next-question request after the report is the one looked at.  *)

NextQuestionAfterFinish ==
    /\ call.fn = "finish_interview"
    /\ call.interview_id = FirstInterview
    /\ response = LifecycleResponse("finish_report")
    /\ GetNextQuestion

NextAfterFinish ==
    \/ FinishInterview(FirstInterview)
    \/ NextQuestionAfterFinish

SpecAfterFinish == InitFinish /\ [][NextAfterFinish]_vars

-----------------------------------------------------------------------------
(* What the claims speak of                                                *)

QuestionCount == IF stored = <<>> THEN 0 ELSE stored[1].state_data.question_count

TopicsCovered ==
    IF stored = <<>> THEN {} ELSE PySet(stored[1].state_data.topics_covered)

SkillsTested ==
    IF stored = <<>> THEN {} ELSE PySet(stored[1].state_data.skills_tested)

NextSkillToTest ==
    IF stored = <<>> THEN "" ELSE stored[1].state_data.next_skill_to_test

TurnNumbers(rows) == { rows[i].turn_no : i \in DOMAIN rows }

CandidateQAText == Text("fixed", "candidate_questions")
WrapupText == Text("fixed", "wrapup")

\* The drafter failed or returned malformed output in the last call.
DrafterFailed ==
    \/ drafter.kind = "fail"
    \/ drafter.kind = "json" /\ ~drafter.has_question

\* avg_score within 5.0 .. 7.0; an empty trend has the average 0.0
AvgInUnclearBand(trend) ==
    /\ trend # <<>>
    /\ 50 * Len(trend) <= SumSeq(trend)
    /\ SumSeq(trend) <= 70 * Len(trend)

\* A weak category: average below 6.0 or some score below 4.5; a strong
\* one: average at least 7.5.
WeakScores(scores) ==
    /\ scores # <<>>
    /\ \/ SumSeq(scores) < 60 * Len(scores)
       \/ \E i \in DOMAIN scores : scores[i] < 45

StrongScores(scores) == scores # <<>> /\ SumSeq(scores) >= 75 * Len(scores)

\* The agent turns past the core plan that stand before the candidate-Q&A
\* prompt (before the end of the transcript if the prompt is not there yet).
BeforeCandidateQA(i) == \A k \in 1 .. i : turns[k].text # CandidateQAText

ExtensionTurns ==
    { i \in DOMAIN turns :
        /\ turns[i].speaker = "agent"
        /\ turns[i].turn_no > MIN_CORE_QUESTIONS
        /\ BeforeCandidateQA(i) }

-----------------------------------------------------------------------------
(* C1 - C10                                                                *)

\* C1: every call that produces a question (a new agent turn) advances
\* question_count by exactly 1 and produces the turn number that follows the
\* cursor, so that no turn number is skipped and none is produced twice.
C1_TurnMonotonicity ==
    [][ Len(turns') > Len(turns) =>
          /\ QuestionCount' = QuestionCount + 1
          /\ turns'[Len(turns')].turn_no = QuestionCount + 1
          /\ turns'[Len(turns')].turn_no \notin TurnNumbers(turns) ]_vars

\* C2: a question returned for a turn 1..8 has the category the plan gives
\* that turn number.
C2_CorePlanCategories ==
    (response.kind = "question" /\ response.turnNo \in 1 .. MIN_CORE_QUESTIONS)
        => response.questionType = BASE_QUESTION_PLAN[response.turnNo]

\* C3: wherever the candidate-Q&A prompt stands in the transcript, the turns
\* 1..8 of the core plan stand before it, no wrap-up message stands before it,
\* and it stands there once.
C3_CandidateQAOrder ==
    \A i \in DOMAIN turns :
        turns[i].text = CandidateQAText =>
            /\ (1 .. MIN_CORE_QUESTIONS) \subseteq TurnNumbers(SubSeq(turns, 1, i - 1))
            /\ \A k \in 1 .. (i - 1) : turns[k].text # WrapupText
            /\ \A k \in DOMAIN turns : turns[k].text = CandidateQAText => k = i

C6_HardMaximum ==
    [][ /\ QuestionCount <= MAX_QUESTIONS => QuestionCount' <= MAX_QUESTIONS
        /\ QuestionCount + 1 > MAX_QUESTIONS =>
              /\ response'.kind = "completion"
              /\ stored' = stored
              /\ turns' = turns ]_vars

C6_Witness ==
    /\ QuestionCount > MAX_QUESTIONS
    /\ "wrapup" \notin TopicsCovered
    /\ response.kind = "completion"

\* C7: after the 8 core questions, with no score recorded, the question
\* returned as the 9th is the candidate-Q&A prompt, not an error fallback.
C7_NinthIsCandidateQA ==
    [][ (Len(turns) = MIN_CORE_QUESTIONS /\ QuestionCount = MIN_CORE_QUESTIONS) =>
          /\ response'.kind = "question"
          /\ response'.turnNo = MIN_CORE_QUESTIONS + 1
          /\ response'.questionType = "candidate_questions"
          /\ response'.question = CandidateQAText ]_vars

\* C8: on a core turn on which the drafter fails or returns malformed output
\* the call returns a question, and it is the fixed fallback for the category
\* the plan gives that turn.
C8_FallbackForIntendedCategory ==
    [][ (QuestionCount < MIN_CORE_QUESTIONS /\ DrafterFailed') =>
          LET q_type == BASE_QUESTION_PLAN[QuestionCount + 1]
          IN  /\ response'.kind = "question"
              /\ response'.questionType = q_type
              /\ response'.question = _fallback_question(q_type).question ]_vars

\* C9: once the second-chance flag is set a call asks one question in that
\* category and clears the flag in the same step.
\* No reachable state object carries the flag: see should_continue_after_minimum.

\* C10: a request that has returned a question had its state update stored
\* before it returned, and the store holds one complete state dict at any
\* time.
C10_PersistedBeforeResponse ==
    /\ \A r \in Requests :
          (pc[r] = "done" /\ reply[r].kind = "question") => persisted[r]
    /\ stored # <<>> => DOMAIN stored[1].state_data = SerializedKeys

-----------------------------------------------------------------------------
(* C11 - C20                                                               *)

\* The fields of a state object that decisions are taken from.
DecisionFields ==
    { "question_count", "performance_trend", "category_scores", "red_flags",
      "green_flags", "struggle_count", "strong_answer_count",
      "current_difficulty", "topics_covered", "skills_tested",
      "second_chance_category", "decisions_made" }

Recommended == result.fn = "_determine_recommendation"

\* The evaluations flagged "irrelevant answer" or "repetitive content".
GamingFlagged ==
    Cardinality({ i \in DOMAIN call.evaluations : call.evaluations[i].gaming })

\* C12: with two or more evaluations flagged as irrelevant or repetitive the
\* recommendation is REJECT, whatever the scores, the flag counts and the
\* number of answered turns.
C12_GamingGuardPrecedence ==
    (Recommended /\ GamingFlagged >= 2) => result.recommendation = "REJECT"

C12_Witness ==
    /\ Recommended /\ GamingFlagged >= 2
    /\ call.scores.overall = 90 /\ call.scores.technical = 75
    /\ call.scores.communication = 75 /\ call.num_questions = 10
    /\ result.recommendation = "REJECT" /\ result.rule = "gaming"

\* Some category has 3 scored turns, the first below 5 and the last at
\* least 7.
RecoveredCategory ==
    \E i \in DOMAIN call.evaluations :
        LET ss == ScoresOfType(call.evaluations, TypeOf(call.evaluations[i]))
        IN  Len(ss) >= 3 /\ ss[1] < 50 /\ ss[Len(ss)] >= 70

\* C13: with such a recovery, an overall score of 65 or more and no REJECT
\* condition, the recommendation is HOLD and never PROCEED.
C13_RecoveryForcesHold ==
    (Recommended /\ RecoveredCategory /\ call.scores.overall >= 65
       /\ result.recommendation # "REJECT")
        => result.recommendation = "HOLD"

\* C14: with fewer than 8 answered turns and no REJECT condition the
\* recommendation is HOLD and never PROCEED.
C14_EarlyTerminationHold ==
    (Recommended /\ call.num_questions < 8 /\ result.recommendation # "REJECT")
        => result.recommendation = "HOLD"

\* C15: overall >= 75, technical >= 70, communication >= 70, 8 or more
\* answered turns, no red flag, fewer improvement notes than the cap and
\* fewer than 2 gaming flags give PROCEED.
C15_StrongProceed ==
    (Recommended
       /\ call.scores.overall >= 75 /\ call.scores.technical >= 70
       /\ call.scores.communication >= 70 /\ call.num_questions >= 8
       /\ CountOf(call.evaluations, "red_flags") = 0
       /\ CountOf(call.evaluations, "improvements")
             < max_improvements(call.num_questions)
       /\ GamingFlagged < 2)
        => result.recommendation = "PROCEED"

C15_Witness ==
    /\ Recommended
    /\ call.scores.overall = 80 /\ call.scores.technical = 75
    /\ call.scores.communication = 75 /\ call.num_questions = 10
    /\ CountOf(call.evaluations, "red_flags") = 0
    /\ CountOf(call.evaluations, "strengths") = 1
    /\ CountOf(call.evaluations, "improvements") = 5
    /\ result.recommendation = "PROCEED"

\* C16: an overall score below 40 gives REJECT for any number of answered
\* turns, any axis scores and any flags.
C16_LowOverallReject ==
    (Recommended /\ call.scores.overall < 40) => result.recommendation = "REJECT"

C16_Witness ==
    /\ Recommended /\ GamingFlagged = 0
    /\ call.scores.overall = 39 /\ call.scores.technical = 75
    /\ call.scores.communication = 75 /\ call.num_questions = 8
    /\ CountOf(call.evaluations, "red_flags") = 0
    /\ result.recommendation = "REJECT"

\* The scorer has answered the call.
Evaluated == result.fn = "evaluate_answer"

AllAxes(e, v) ==
    /\ e.technical = v /\ e.communication = v
    /\ e.structure = v /\ e.confidence = v

\* C17: an answer of at most 2 words to a turn of a scored category gets 0
\* on all four axes, and no external scoring call is made.
C17_GibberishGate ==
    (Evaluated /\ call.answer.words <= 2
       /\ call.turn.category \notin {"warmup", "candidate_questions", "wrapup"})
        => /\ AllAxes(result.evaluation, 0)
           /\ ~result.evaluation.external_call

C17_Witness ==
    /\ Evaluated
    /\ call.answer.words = 2 /\ call.answer.chars = 12
    /\ call.turn.category = "behavioral"
    /\ call.llm.kind = "json" /\ call.llm.has_scores /\ call.llm.score = 85
    /\ AllAxes(result.evaluation, 0)
    /\ result.evaluation.source = "gibberish"

\* C18: any answer to a warmup, candidate_questions or wrapup turn gets
\* exactly 5 on all four axes, with no gibberish detection and no external
\* scoring call.
C18_LowSignalNeutrality ==
    (Evaluated
       /\ call.turn.category \in {"warmup", "candidate_questions", "wrapup"})
        => /\ AllAxes(result.evaluation, 50)
           /\ ~result.evaluation.gibberish_checked
           /\ ~result.evaluation.external_call

\* C19: a denied consent leaves the session ENDED, and from then on no
\* request on the interview returns a question, advances question_count or
\* changes the status.
C19_ConsentDenialTerminal ==
    [][ /\ response'.kind = "consent_denied" /\ sessions' = sessions
            => session_status' = "ENDED"
        /\ session_status = "ENDED" =>
              /\ session_status' = "ENDED"
              /\ QuestionCount' = QuestionCount
              /\ turns' = turns ]_vars

\* The candidate's interviews that are neither completed nor ended.
OpenInterviews ==
    (IF session_status \in {"COMPLETED", "ENDED"} THEN 0 ELSE 1)
    + Cardinality({ i \in DOMAIN sessions : sessions[i] \notin {"COMPLETED", "ENDED"} })

\* C20: the candidate never has two interviews that are created and neither
\* completed nor ended.
C20_OneOpenInterview == OpenInterviews <= 1

-----------------------------------------------------------------------------
(* C21 - C30                                                               *)

\* A step of finish_interview: the only action that records its call.
FinishStep == call' # call /\ call'.fn = "finish_interview"

\* C21: once finish_interview has returned for the candidate's only
\* interview, a call of create_interview for the candidate is not refused,
\* and it adds a session row of its own (a new interview id).
C21_CreateAfterFinish ==
    [][ ( /\ result.fn = "finish_interview"
          /\ result.interviewId = FirstInterview
          /\ sessions = <<>>
          /\ response'.kind \in {"created", "create_refused"} )
        => /\ response'.kind = "created"
           /\ Len(sessions') = 1 ]_vars

\* C22: finish_interview on an existing interview returns a report with
\* status COMPLETED and a recommendation among PROCEED, HOLD, REJECT whichever
\* of the six guarded stages fail; every guarded stage that does not fail
\* itself has its effect (signals row, scores row, status COMPLETED, ATS
\* sync) whichever other stages failed; and with all six failing the
\* recommendation is HOLD.
C22_FinishAlwaysReports ==
    [][ ( /\ FinishStep
          /\ call'.interview_id = FirstInterview
          /\ call'.failed \subseteq GuardedStages )
        => /\ result'.status = "COMPLETED"
           /\ result'.recommendation \in {"PROCEED", "HOLD", "REJECT"}
           /\ "signals" \notin call'.failed =>
                Len(tables'.interview_signals) = Len(tables.interview_signals) + 1
           /\ "persistence" \notin call'.failed =>
                /\ Len(tables'.interview_scores) = Len(tables.interview_scores) + 1
                /\ tables'.interview_scores[Len(tables'.interview_scores)].recommendation
                     = result'.recommendation
           /\ "status_update" \notin call'.failed => session_status' = "COMPLETED"
           /\ "ats_sync" \notin call'.failed => Len(tables'.ats) = Len(tables.ats) + 1
           /\ call'.failed = GuardedStages => result'.recommendation = "HOLD" ]_vars

C22_Witness ==
    /\ call.fn = "finish_interview"
    /\ call.interview_id = FirstInterview
    /\ call.failed = {"evaluation", "summary", "persistence"}
    /\ result.fn = "finish_interview" /\ result.recommendation = "HOLD"
    /\ session_status = "COMPLETED"
    /\ Len(tables.interview_signals) = 1 /\ Len(tables.ats) = 1
    /\ Len(CandidateTurns(turns)) = MaxAnswered

\* C23: a handler called with an interview id that matches no session row
\* answers "not found", returns no report and leaves every table as it is.
C23_UnknownIdNotFound ==
    [][ /\ ( FinishStep /\ call'.interview_id = UnknownInterview )
           => /\ response'.kind = "not_found"
              /\ result' = result
        /\ response'.kind = "not_found"
           => UNCHANGED <<stored, turns, session_status, tables, sessions>> ]_vars

\* C24: in the extension window, with 3 or more red flags on the state the
\* termination policy answers "terminate" and the question asked next is the
\* candidate-Q&A prompt, whatever the category scores are.
C24_RedFlagsTerminate ==
    ( /\ result.fn = "generate_next_question"
      /\ Len(call.state.red_flags) >= 3 )
    => /\ result.action = "terminate"
       /\ result.question = CandidateQAText

\* C25: in the extension window, with the overall average within 5.0 .. 7.0,
\* fewer than 3 red flags and fewer than 3 questions asked past the core
\* plan, the termination policy answers "continue" and one more question
\* (not the candidate-Q&A prompt) is asked, the cursor moving by one.
C25_UnclearContinues ==
    ( /\ result.fn = "generate_next_question"
      /\ AvgInUnclearBand(call.state.performance_trend)
      /\ Len(call.state.red_flags) < 3
      /\ call.state.question_count - MIN_CORE_QUESTIONS < 3 )
    => /\ result.action = "continue"
       /\ result.question # CandidateQAText
       /\ result.state.question_count = call.state.question_count + 1

C29_DeepDiveOnExceptional ==
    ( /\ result.fn = "should_add_followup"
      /\ call.state.question_count >= MIN_CORE_QUESTIONS
      /\ call.state.question_count < MAX_QUESTIONS
      /\ call.state.last_score >= 90
      /\ call.state.last_question_type \in {"technical", "scenario"} )
    => result.followup_type = "deep_dive"

\* C27: the question_count of the stored state never decreases from one
\* request to the next, also when a read of candidate_states fails: a failed
\* read does not replace the stored state by a fresh one.
C27_StoredCountNeverDecreases ==
    [][ QuestionCount' >= QuestionCount ]_vars

\* C30: for a job with at least two distinct must-have skills, the call that
\* asks turn 5 with no skill tested yet targets the first must-have skill and
\* adds it to skills_tested; the call that asks turn 6 after it targets the
\* second must-have skill and adds it, so that no must-have skill is passed
\* over.
C30_CoreTechnicalSkills ==
    [][ /\ ( QuestionCount = 4 /\ QuestionCount' = 5 /\ SkillsTested = {} )
           => /\ NextSkillToTest' = job.must_have_skills[1]
              /\ SkillsTested' = { job.must_have_skills[1] }
        /\ ( QuestionCount = 5 /\ QuestionCount' = 6
             /\ SkillsTested = { job.must_have_skills[1] } )
           => /\ NextSkillToTest' = job.must_have_skills[2]
              /\ SkillsTested' = { job.must_have_skills[1], job.must_have_skills[2] } ]_vars


-----------------------------------------------------------------------------
(* C31 - C40                                                               *)

\* C31: a one-word answer to the candidate-Q&A prompt or the wrap-up, asked
\* at a turn after the 8 core turns, is scored 5 on all four axes at
\* finalization and is not scored as gibberish.
C31_ClosingAnswersNeutral ==
    ( /\ Evaluated
      /\ call.turn.turn_no > MIN_CORE_QUESTIONS
      /\ call.turn.category \in {"candidate_questions", "wrapup"}
      /\ call.answer.words = 1 )
        => /\ AllAxes(result.evaluation, 50)
           /\ result.evaluation.source # "gibberish"


\* C32: when the scorer's response cannot be parsed, an answer of more than
\* 2 words and at least 10 characters that passed the gibberish gate gets,
\* on all four axes, the score min(10, max(5, words // 5)) of its own word
\* count: never 0, and so without the gibberish red flag.
C32_UnparsableScoredByLength ==
    ( /\ Evaluated
      /\ call.llm.kind = "unparsable"
      /\ PlanType(call.turn.turn_no) \notin LowSignalTypes
      /\ call.answer.words > 2 /\ call.answer.chars >= 10
      /\ ~_is_gibberish(call.answer, PlanType(call.turn.turn_no)) )
        => LET by_length == call.answer.words \div 5
               expected == IF by_length > 10 THEN 100
                           ELSE IF by_length > 5 THEN 10 * by_length ELSE 50
           IN  /\ AllAxes(result.evaluation, expected)
               /\ result.evaluation.technical >= 50


\* The turn numbers that have a question and an answer.
AnsweredNumbers ==
    { t \in { turns[i].turn_no : i \in DOMAIN turns } :
        /\ \E i \in DOMAIN turns : turns[i].speaker = "agent" /\ turns[i].turn_no = t
        /\ \E i \in DOMAIN turns : turns[i].speaker = "candidate" /\ turns[i].turn_no = t }

\* C33: the scoring at the end of an interview never has more than 5
\* scoring calls in flight; it returns exactly one evaluation for each turn
\* that has a question and an answer, in the order of the turns; an entry
\* whose scoring call failed is 5 on all four axes, and an entry whose
\* scoring call succeeded carries the scores of that call.
C33_BatchScoring ==
    result.fn = "_evaluate_all_answers" =>
        /\ Cardinality(result.running) <= 5
        /\ result.returned =>
              LET evaluations == result.evaluations
              IN  /\ DOMAIN evaluations = 1 .. Cardinality(AnsweredNumbers)
                  /\ { evaluations[i].turn_no : i \in DOMAIN evaluations } = AnsweredNumbers
                  /\ \A i, j \in DOMAIN evaluations :
                        i < j => evaluations[i].turn_no < evaluations[j].turn_no
                  /\ \A i \in DOMAIN evaluations :
                        /\ ( evaluations[i].evaluation.external_call
                               /\ call.llms[i].kind = "fail" )
                             => AllAxes(evaluations[i].evaluation, 50)
                        /\ ( evaluations[i].evaluation.external_call
                               /\ call.llms[i] = GoodResponse )
                             => AllAxes(evaluations[i].evaluation, 85)


\* C34: with an overall score of at least 75 the verdict is not PROCEED when
\* the number of improvement notes exceeds max(10, 1.25 x turns answered),
\* and with an overall score of at least 80 when it exceeds 1.5 times that.
C34_ImprovementCapApplies ==
    ( /\ Recommended
      /\ call.scores.overall >= 75
      /\ LET notes == improvement_count(call.evaluations)
             cap == max_improvements(call.num_questions)
         IN  IF call.scores.overall >= 80 THEN 2 * notes > 3 * cap ELSE notes > cap )
        => result.recommendation # "PROCEED"


\* C35: for a senior role, an interview of at least 8 answered turns that
\* ends with 65 <= overall < 70 and no red flag is reported as HOLD by
\* finish_interview (no category has a recovery in these interviews).
C35_SeniorMidBandHold ==
    ( /\ result.fn = "finish_verdict"
      /\ call.job_id = "SENIOR-DATA-ENGINEER"
      /\ 65 <= result.scores.overall /\ result.scores.overall < 70
      /\ result.red_flags = 0 )
        => result.recommendation = "HOLD"


\* C36: for 3 or more scores of a category the smoothed value is the plain
\* mean unless the average of the scores other than one lowest exceeds the
\* lowest by more than 4.0, and it is never below the plain mean.
C36_SmoothingNeverBelowMean ==
    ( result.fn = "_calculate_smoothed_avg" /\ Len(call.scores) >= 3 )
        => LET n == Len(call.scores)
               lowest == MinSeq(call.scores)
               others == SumSeq(call.scores) - lowest
               applies == others - (n - 1) * lowest > 40 * (n - 1)
           IN  /\ ~applies => result.num * n = SumSeq(call.scores) * result.den
               /\ result.num * n >= SumSeq(call.scores) * result.den


\* The length of the run of scores within [low, high) that ends the trend.
RECURSIVE TrailingRun(_, _, _)
TrailingRun(trend, low, high) ==
    IF trend = <<>> THEN 0
    ELSE LET last == trend[Len(trend)]
         IN  IF low <= last /\ last < high
             THEN 1 + TrailingRun(SubSeq(trend, 1, Len(trend) - 1), low, high)
             ELSE 0

\* C37: after any sequence of update_performance calls on a new state
\* object, struggle_count is the length of the run of scores below 5.0 that
\* ends performance_trend, strong_answer_count the length of the run of
\* scores of at least 8.0 that ends it, the two are never both positive,
\* and last_score is the last element of performance_trend.
C37_RunCounters ==
    result.fn = "update_performance" =>
        LET state == result.state
            trend == state.performance_trend
        IN  /\ trend = call.scores
            /\ state.struggle_count = TrailingRun(trend, 0, 50)
            /\ state.strong_answer_count = TrailingRun(trend, 80, 101)
            /\ ~(state.struggle_count > 0 /\ state.strong_answer_count > 0)
            /\ trend # <<>> => state.last_score = trend[Len(trend)]

C37_Witness ==
    /\ result.fn = "update_performance"
    /\ call.scores = <<95, 30, 49>>
    /\ result.state.struggle_count = 2
    /\ result.state.strong_answer_count = 0
    /\ result.state.last_score = 49


\* C38: _determine_recommendation never returns PROCEED when the overall
\* score is below 65, nor when 3 or more substantial red flags were
\* recorded, whatever the axis scores, the number of turns, the improvement
\* notes and the scores by category.
C38_NoProceedWhenWeakOrFlagged ==
    ( /\ Recommended
      /\ \/ call.scores.overall < 65
         \/ CountOf(call.evaluations, "red_flags") >= 3 )
        => result.recommendation # "PROCEED"

C38_Witness ==
    /\ Recommended
    /\ call.scores.overall = 90 /\ call.scores.technical = 75
    /\ call.scores.communication = 75 /\ call.num_questions = 10
    /\ CountOf(call.evaluations, "red_flags") = 3
    /\ result.recommendation = "HOLD"
    /\ result.rule = "strong_red_flags"


\* C39: once finish_interview has returned its report and the session is
\* COMPLETED, a next-question request on the interview returns no question,
\* adds no turn to the transcript and leaves the stored question_count as
\* it is.
C39_NoQuestionAfterFinish ==
    [][ ( /\ result.fn = "finish_interview"
          /\ session_status = "COMPLETED"
          /\ response' # response )
        => /\ response'.kind # "question"
           /\ turns' = turns
           /\ QuestionCount' = QuestionCount ]_vars


\* C40: when the evaluation stage of finish_interview fails on an interview
\* with answered questions and every later stage succeeds, the report does
\* not recommend REJECT and its overall score is not 0.
C40_FailedEvaluationDoesNotReject ==
    [][ ( /\ FinishStep
          /\ call'.interview_id = FirstInterview
          /\ _extract_qa_pairs(turns) # <<>>
          /\ call'.failed = {"evaluation"} )
        => /\ result'.recommendation # "REJECT"
           /\ result'.overallScore # 0 ]_vars

=============================================================================
